---- MODULE Spec2Model ----
(***************************************************************************)
(* State-machine model of the OpenCompanyBot backend: the Worker router    *)
(* (src/main.py, Default.fetch), its pricing helper, and the global agent  *)
(* team (src/app/agents/team.py).                                          *)
(*                                                                         *)
(* Strings that the code inspects (strip, split, lower, substring and      *)
(* prefix tests) are sequences of one-character strings; JSON values are   *)
(* records [t, s, n] carrying their Python type.                           *)
(***************************************************************************)
EXTENDS Integers, Sequences, FiniteSets, TLC

VARIABLES
    req,      \* the request being handled / handled last
    resp,     \* the outcome of the last finished handler
    issued,   \* history: tokens returned so far by register / login
    agents,   \* agent_team.agents: role -> [status, current_task, tasks_completed]
    tasks,    \* the AgentTasks whose process_task is suspended in its sleep, by id
    done,     \* history: role -> how many of its tasks ended completed / failed
    finished, \* history: the AgentTask whose process_task returned last
    orders,   \* history: ids of the orders returned so far, kept by the order flow
    outbound  \* the outbound HTTP calls issued so far while handling req

vars == <<req, resp, issued, agents, tasks, done, finished, orders, outbound>>

----------------------------------------------------------------------------
(* Bounds of the model *)

\* number of AgentTask objects created in one behaviour
MaxTasks == 1

\* number of distinct values secrets.token_hex can return in the model
NumTokens == 1

\* direct calls of AgentTeam.process_task in a behaviour of SpecTeam: two, so that
\* calls on one agent overlap
MaxCalls == 2

----------------------------------------------------------------------------
(* Python strings *)

\* str.isspace for one character
IsSpace(c) == c = " "

UpperLetters ==
    <<"A", "B", "C", "D", "E", "F", "G", "H", "I", "J", "K", "L", "M",
      "N", "O", "P", "Q", "R", "S", "T", "U", "V", "W", "X", "Y", "Z">>

LowerLetters ==
    <<"a", "b", "c", "d", "e", "f", "g", "h", "i", "j", "k", "l", "m",
      "n", "o", "p", "q", "r", "s", "t", "u", "v", "w", "x", "y", "z">>

\* str.lower for one character
LowerChar(c) ==
    IF \E i \in DOMAIN UpperLetters : UpperLetters[i] = c
    THEN LowerLetters[CHOOSE i \in DOMAIN UpperLetters : UpperLetters[i] = c]
    ELSE c

\* str.lower
Lower(s) == [i \in DOMAIN s |-> LowerChar(s[i])]

RECURSIVE LStrip(_)
\* str.lstrip
LStrip(s) == IF s # <<>> /\ IsSpace(Head(s)) THEN LStrip(Tail(s)) ELSE s

RECURSIVE RStrip(_)
\* str.rstrip
RStrip(s) ==
    IF s # <<>> /\ IsSpace(s[Len(s)]) THEN RStrip(SubSeq(s, 1, Len(s) - 1)) ELSE s

\* str.strip
Strip(s) == RStrip(LStrip(s))

RECURSIVE SplitFrom(_, _, _)
\* str.split() with no separator: the maximal runs of non-whitespace characters
\* (words: finished words, cur: the word being read, s: the rest)
SplitFrom(words, cur, s) ==
    IF s = <<>>
    THEN IF cur = <<>> THEN words ELSE Append(words, cur)
    ELSE IF IsSpace(Head(s))
         THEN SplitFrom(IF cur = <<>> THEN words ELSE Append(words, cur), <<>>, Tail(s))
         ELSE SplitFrom(words, Append(cur, Head(s)), Tail(s))

Split(s) == SplitFrom(<<>>, <<>>, s)

RECURSIVE JoinSpace(_)
\* " ".join(words)
JoinSpace(words) ==
    IF words = <<>> THEN <<>>
    ELSE IF Len(words) = 1 THEN words[1]
    ELSE words[1] \o <<" ">> \o JoinSpace(Tail(words))

\* str.startswith
StartsWith(s, p) == Len(s) >= Len(p) /\ SubSeq(s, 1, Len(p)) = p

\* the `in` operator on two strings
Contains(s, sub) ==
    \E i \in 0..(Len(s) - Len(sub)) : SubSeq(s, i + 1, i + Len(sub)) = sub

RECURSIVE Before(_, _)
\* s.split(c)[0]: the part of s before the first c
Before(s, c) ==
    IF s = <<>> \/ Head(s) = c THEN <<>> ELSE <<Head(s)>> \o Before(Tail(s), c)

----------------------------------------------------------------------------
(* String literals of the source *)

\* the string literals of src/main.py and src/app/agents/team.py, by their text
S ==
    [Bearer |-> <<"B", "e", "a", "r", "e", "r">>,
     BearerSp |-> <<"B", "e", "a", "r", "e", "r", " ">>,
     uk |-> <<"u", "k">>,
     sg |-> <<"s", "g">>,
     hk |-> <<"h", "k">>,
     ae |-> <<"a", "e">>,
     us |-> <<"u", "s">>,
     ltd |-> <<"l", "t", "d">>,
     llp |-> <<"l", "l", "p">>,
     pte_ltd |-> <<"p", "t", "e", "_", "l", "t", "d">>,
     company |-> <<"c", "o", "m", "p", "a", "n", "y">>,
     freezone |-> <<"f", "r", "e", "e", "z", "o", "n", "e">>,
     mainland |-> <<"m", "a", "i", "n", "l", "a", "n", "d">>,
     llc |-> <<"l", "l", "c">>,
     corporation |-> <<"c", "o", "r", "p", "o", "r", "a", "t", "i", "o", "n">>,
     USDT |-> <<"U", "S", "D", "T">>,
     John |-> <<"J", "o", "h", "n">>,
     Smith |-> <<"S", "m", "i", "t", "h">>,
     qualify |-> <<"q", "u", "a", "l", "i", "f", "y">>,
     qualify_lead |-> <<"q", "u", "a", "l", "i", "f", "y", "_", "l", "e", "a", "d">>,
     handle_inquiry |-> <<"h", "a", "n", "d", "l", "e", "_", "i", "n", "q", "u", "i",
         "r", "y">>,
     handle_ticket |-> <<"h", "a", "n", "d", "l", "e", "_", "t", "i", "c", "k", "e",
         "t">>,
     faq |-> <<"f", "a", "q">>,
     analyze_performance |-> <<"a", "n", "a", "l", "y", "z", "e", "_", "p", "e", "r",
         "f", "o", "r", "m", "a", "n", "c", "e">>,
     register_company |-> <<"r", "e", "g", "i", "s", "t", "e", "r", "_", "c", "o",
         "m", "p", "a", "n", "y">>,
     check_status |-> <<"c", "h", "e", "c", "k", "_", "s", "t", "a", "t", "u", "s">>,
     verify_kyc |-> <<"v", "e", "r", "i", "f", "y", "_", "k", "y", "c">>,
     risk_assessment |-> <<"r", "i", "s", "k", "_", "a", "s", "s", "e", "s", "s", "m",
         "e", "n", "t">>,
     process_payment |-> <<"p", "r", "o", "c", "e", "s", "s", "_", "p", "a", "y", "m",
         "e", "n", "t">>,
     create_invoice |-> <<"c", "r", "e", "a", "t", "e", "_", "i", "n", "v", "o", "i",
         "c", "e">>,
     payment |-> <<"p", "a", "y", "m", "e", "n", "t">>,
     registration |-> <<"r", "e", "g", "i", "s", "t", "r", "a", "t", "i", "o", "n">>,
     kyc |-> <<"k", "y", "c">>,
     default |-> <<"d", "e", "f", "a", "u", "l", "t">>,
     success |-> <<"s", "u", "c", "c", "e", "s", "s">>,
     paid |-> <<"p", "a", "i", "d">>,
     ok |-> <<"o", "k">>,
     generate_content |-> <<"g", "e", "n", "e", "r", "a", "t", "e", "_", "c", "o", "n",
         "t", "e", "n", "t">>,
     campaign_report |-> <<"c", "a", "m", "p", "a", "i", "g", "n", "_", "r", "e", "p",
         "o", "r", "t">>]


----------------------------------------------------------------------------
(* JSON values as Python sees them after request.json() *)

Missing  == [t |-> "missing", s |-> <<>>, n |-> 0]    \* key absent from the object
Null     == [t |-> "null", s |-> <<>>, n |-> 0]       \* None
Str(x)   == [t |-> "str", s |-> x, n |-> 0]
Num(k)   == [t |-> "num", s |-> <<>>, n |-> k]
Bool(b)  == [t |-> "bool", s |-> <<>>, n |-> IF b THEN 1 ELSE 0]
Dict     == [t |-> "dict", s |-> <<>>, n |-> 0]       \* an object with string members
List     == [t |-> "list", s |-> <<>>, n |-> 0]

\* bool(v): Python truthiness; a Dict or List input of the model is non-empty
Truthy(v) ==
    CASE v.t = "str" -> v.s # <<>>
      [] v.t \in {"num", "bool"} -> v.n # 0
      [] v.t \in {"dict", "list"} -> TRUE
      [] OTHER -> FALSE

\* hash(v) is defined (dict and list are unhashable: `v in d`, d.get(v) raise TypeError)
Hashable(v) == v.t \notin {"dict", "list"}

\* dict.get(key, default) on the parsed body
Get(body, key, default) ==
    IF body[key].t = "missing" THEN default ELSE body[key]

----------------------------------------------------------------------------
(* Provider table and price calculator *)

\* PROVIDERS: country code -> [name, type, features]
PROVIDERS ==
    (S.uk :> [name |-> "Letsy", type |-> "api", features |-> {S.ltd, S.llp}]) @@
    (S.sg :> [name |-> "Singapore Incorporation Services", type |-> "api",
              features |-> {S.pte_ltd, S.llp}]) @@
    (S.hk :> [name |-> "Hong Kong Company Services", type |-> "api",
              features |-> {S.ltd, S.company}]) @@
    (S.ae :> [name |-> "UAE Free Zone Services", type |-> "manual",
              features |-> {S.freezone, S.mainland}]) @@
    (S.us :> [name |-> "US State Filing Services", type |-> "api",
              features |-> {S.llc, S.corporation}])

\* `country not in PROVIDERS` evaluates without raising and is False
InProviders(v) == v.t = "str" /\ v.s \in DOMAIN PROVIDERS

\* base_prices of _calculate_price
base_prices ==
    (S.uk :> (S.ltd :> 50 @@ S.llp :> 39)) @@
    (S.sg :> (S.pte_ltd :> 300 @@ S.llp :> 350)) @@
    (S.hk :> (S.ltd :> 200 @@ S.company :> 180)) @@
    (S.ae :> (S.freezone :> 500 @@ S.mainland :> 450)) @@
    (S.us :> (S.llc :> 150 @@ S.corporation :> 200))

DefaultBase == 100
GovernmentFee == 50
VirtualFee == 50

\* base_prices.get(country, {}).get(company_type, 100)
BasePrice(country, company_type) ==
    IF country.t = "str" /\ country.s \in DOMAIN base_prices
       /\ company_type.t = "str" /\ company_type.s \in DOMAIN base_prices[country.s]
    THEN base_prices[country.s][company_type.s]
    ELSE DefaultBase

\* a seeded fault: the government fee is charged for every country
CalculatePriceFeeEverywhere(country, company_type, virtual) ==
    LET base == BasePrice(country, company_type)
        va_fee == IF Truthy(virtual) THEN VirtualFee ELSE 0
    IN [total |-> base + GovernmentFee + va_fee,
        currency |-> IF country = Str(S.uk) THEN "GBP" ELSE "USD",
        breakdown |-> [base |-> base, government_fee |-> GovernmentFee,
                       virtual_address |-> va_fee]]

\* Default._calculate_price; raises TypeError on an unhashable argument,
\* which callers test with CalculatePriceRaises
_calculate_price(country, company_type, virtual) ==
    LET base == BasePrice(country, company_type)
        ch_fee == IF country = Str(S.uk) THEN GovernmentFee ELSE 0
        va_fee == IF Truthy(virtual) THEN VirtualFee ELSE 0
    IN [total |-> base + ch_fee + va_fee,
        currency |-> IF country = Str(S.uk) THEN "GBP" ELSE "USD",
        breakdown |-> [base |-> base, government_fee |-> ch_fee,
                       virtual_address |-> IF Truthy(virtual) THEN va_fee ELSE 0]]

CalculatePriceRaises(country, company_type) ==
    ~Hashable(country) \/ ~Hashable(company_type)

----------------------------------------------------------------------------
(* Requests and responses of Default.fetch *)

\* keys the handlers read from the JSON body
Fields ==
    {"action", "type", "issue", "ticket_id", "amount", "currency", "email",
     "password", "name", "country", "company_name", "company_type",
     "use_virtual_address", "virtual_address", "registered_office_address",
     "director_name", "order_id", "status", "applicant_name"}

\* the JSON object {}
EmptyBody == [f \in Fields |-> Missing]

\* urlparse(request.url).path, as its segments between the slashes
p_root == <<>>
p_health == <<"health">>
p_api(rest) == <<"api", "v1">> \o rest

\* path.startswith("/api/v1/<name>/")
HasPrefix(path, name) == Len(path) >= 4 /\ SubSeq(path, 1, 3) = p_api(<<name>>)

\* path.split("/")[-1]
LastSegment(path) == path[Len(path)]

\* a request to the Worker: method, path, the Authorization header ("" when absent), the
\* query parameters q and country, and the body: kind "invalid" (request.json()
\* raises), "nonobj" (valid JSON that is not an object) or "obj" (a dict)
Request(method, path, auth, query, kind, body) ==
    [app |-> "worker", method |-> method, path |-> path, auth |-> auth,
     query |-> query, kind |-> kind, body |-> body]

NoQuery == [q |-> Missing, country |-> Missing]
NoData == [none |-> TRUE]

\* success_response(data)
success_response(data) ==
    [kind |-> "response", status |-> 200, error |-> "", data |-> data]

\* error_response(message, status)
error_response(message, status) ==
    [kind |-> "response", status |-> status, error |-> message, data |-> NoData]

\* the handler raised instead of returning a Response
Raised(exc) == [kind |-> "raise", status |-> 0, error |-> exc, data |-> NoData]

\* no handler has finished yet
NoResp == [kind |-> "none", status |-> 0, error |-> "", data |-> NoData]

\* a seeded fault: /health is matched for GET only, like the API branches
IsHealthGetOnly(r) == r.path = p_health /\ r.method = "GET"

\* `if path == "/health":`
IsHealth(r) == r.path = p_health

\* the `if` chain of Default.fetch, in source order
Route(r) ==
    IF r.method = "OPTIONS" THEN "preflight"
    ELSE IF r.path = p_root THEN "root"
    ELSE IF IsHealth(r) THEN "health"
    ELSE IF r.path = p_api(<<"providers">>) /\ r.method = "GET" THEN "providers"
    ELSE IF r.path = p_api(<<"countries">>) /\ r.method = "GET" THEN "countries"
    ELSE IF HasPrefix(r.path, "countries") /\ r.method = "GET" THEN "country"
    ELSE IF r.path = p_api(<<"mcp", "tools">>) /\ r.method = "GET" THEN "mcp_tools"
    ELSE IF r.path = p_api(<<"agents">>) /\ r.method = "GET" THEN "agents"
    ELSE IF r.path = p_api(<<"agents", "ceo">>) /\ r.method = "POST" THEN "agents_ceo"
    ELSE IF r.path = p_api(<<"agents", "sales">>) /\ r.method = "POST" THEN "agents_sales"
    ELSE IF r.path = p_api(<<"agents", "support">>) /\ r.method = "POST"
         THEN "agents_support"
    ELSE IF r.path = p_api(<<"agents", "register">>) /\ r.method = "POST"
         THEN "agents_register"
    ELSE IF r.path = p_api(<<"agents", "kyc">>) /\ r.method = "POST" THEN "agents_kyc"
    ELSE IF r.path = p_api(<<"agents", "payment">>) /\ r.method = "POST"
         THEN "agents_payment"
    ELSE IF r.path = p_api(<<"auth", "register">>) /\ r.method = "POST"
         THEN "auth_register"
    ELSE IF r.path = p_api(<<"auth", "login">>) /\ r.method = "POST" THEN "auth_login"
    ELSE IF r.path = p_api(<<"auth", "profile">>) /\ r.method = "GET"
         THEN "auth_profile"
    ELSE IF r.path = p_api(<<"orders">>) /\ r.method = "POST" THEN "orders_post"
    ELSE IF r.path = p_api(<<"orders">>) /\ r.method = "GET" THEN "orders_get"
    ELSE IF HasPrefix(r.path, "orders") /\ r.method = "GET" THEN "order_detail"
    ELSE IF r.path = p_api(<<"companies", "incorporate">>) /\ r.method = "POST"
         THEN "incorporate"
    ELSE IF r.path = p_api(<<"companies", "search">>) /\ r.method = "GET" THEN "search"
    ELSE IF r.path = p_api(<<"pricing", "calculate">>) /\ r.method = "POST"
         THEN "pricing"
    ELSE IF r.path = p_api(<<"payments", "create">>) /\ r.method = "POST"
         THEN "payments_create"
    ELSE IF r.path = p_api(<<"payments", "webhook">>) /\ r.method = "POST"
         THEN "payments_webhook"
    ELSE IF r.path = p_api(<<"payments">>) /\ r.method = "GET" THEN "payments"
    ELSE IF r.path = p_api(<<"requirements">>) /\ r.method = "GET" THEN "requirements"
    ELSE "not_found"

----------------------------------------------------------------------------
(* Handlers without state: each is the outcome of its branch of fetch *)

\* CORS preflight: Response("", status=204)
PreflightHandler(r) ==
    [kind |-> "response", status |-> 204, error |-> "", data |-> NoData]

RootHandler(r) ==
    success_response([name |-> "OpenCompanyBot API", status |-> "operational",
                      countries |-> DOMAIN PROVIDERS])

\* the timestamp of the body is left out
HealthHandler(r) ==
    success_response([status |-> "healthy", providers |-> DOMAIN PROVIDERS])

ProvidersHandler(r) ==
    success_response([providers |-> [c \in DOMAIN PROVIDERS |-> PROVIDERS[c]]])

\* the characters of a path segment
Chars(seg) ==
    CASE seg = "uk" -> S.uk
      [] seg = "sg" -> S.sg
      [] seg = "hk" -> S.hk
      [] seg = "ae" -> S.ae
      [] seg = "us" -> S.us
      [] seg = "" -> <<>>
      [] OTHER -> <<"?">>

CountryHandler(r) ==
    LET country_code == Chars(LastSegment(r.path))
    IN IF country_code \notin DOMAIN PROVIDERS
       THEN error_response("Country not found", 404)
       ELSE success_response([code |-> country_code,
                              provider |-> PROVIDERS[country_code]])

McpToolsHandler(r) ==
    success_response([tools |-> {"register_company", "check_company_status",
                                 "search_company_name", "get_requirements",
                                 "calculate_price"}])

PaymentsHandler(r) ==
    success_response([supported_coins |-> {"USDT", "BTC", "ETH", "USDC"}])

NotFoundHandler(r) == error_response("Not found", 404)

\* len(v) for a value on which len is defined; a container of the model has one member
PyLen(v) == IF v.t = "str" THEN Len(v.s) ELSE 1

HasLen(v) == v.t \in {"str", "dict", "list"}

MinPasswordLen == 6

\* a seeded fault: the check accepts any header that names a scheme at all
AuthorizedAnyHeader(auth) == auth # <<>>

\* a seeded fault: only a token that register / login returned is accepted
AuthorizedIssuedOnly(auth) ==
    \E k \in issued : auth = S.BearerSp \o <<k>>

\* `"Bearer" not in auth` is False: the check of orders, incorporate, payments/create
Authorized(auth) == Contains(auth, S.Bearer)

\* a seeded fault: the profile check is the substring check of the other endpoints
ProfileAuthorizedSubstring(auth) == Contains(auth, S.Bearer)

\* `not auth.startswith("Bearer ")` is False: the check of auth/profile
ProfileAuthorized(auth) == StartsWith(auth, S.BearerSp)

\* POST /api/v1/auth/register; token is the value secrets.token_hex(32) returns
AuthRegisterHandler(r, token) ==
    IF r.kind = "invalid" THEN error_response("Invalid JSON", 400)
    ELSE IF r.kind = "nonobj" THEN Raised("AttributeError")
    ELSE
    LET e == Get(r.body, "email", Str(<<>>))
        password == Get(r.body, "password", Str(<<>>))
        nm == Get(r.body, "name", Str(<<>>))
    IN IF e.t # "str" \/ nm.t # "str" THEN Raised("AttributeError")
       ELSE
       LET email == Strip(Lower(e.s))
           name == Strip(nm.s)
       IN IF email = <<>> \/ ~Truthy(password)
          THEN error_response("Email and password are required", 400)
          ELSE IF ~HasLen(password) THEN Raised("TypeError")
          ELSE IF PyLen(password) < MinPasswordLen
          THEN error_response("Password must be at least 6 characters", 400)
          ELSE success_response(
                   [status |-> "ok", token |-> token,
                    user |-> [email |-> email,
                              name |-> IF name # <<>> THEN name
                                       ELSE Before(email, "@")]])

\* POST /api/v1/auth/login
AuthLoginHandler(r, token) ==
    IF r.kind = "invalid" THEN error_response("Invalid JSON", 400)
    ELSE IF r.kind = "nonobj" THEN Raised("AttributeError")
    ELSE
    LET e == Get(r.body, "email", Str(<<>>))
        password == Get(r.body, "password", Str(<<>>))
    IN IF e.t # "str" THEN Raised("AttributeError")
       ELSE
       LET email == Strip(Lower(e.s))
       IN IF email = <<>> \/ ~Truthy(password)
          THEN error_response("Email and password are required", 400)
          ELSE success_response([status |-> "ok", token |-> token,
                                 user |-> [email |-> email]])

\* GET /api/v1/auth/profile
AuthProfileHandler(r) ==
    IF ~ProfileAuthorized(r.auth) THEN error_response("Unauthorized", 401)
    ELSE success_response([user |-> [email |-> "user@example.com"]])

\* POST /api/v1/orders; id is the value secrets.token_hex(6) returns
\* a seeded fault: the order is priced without the virtual-address choice
OrdersPostIgnoresVirtual(r, id) ==
    IF ~Authorized(r.auth) THEN error_response("Please login first", 401)
    ELSE IF r.kind # "obj" THEN error_response("Invalid JSON", 400)
    ELSE
    LET country == Get(r.body, "country", Str(S.uk))
        cn == Get(r.body, "company_name", Str(<<>>))
        company_type == Get(r.body, "company_type", Str(S.ltd))
    IN IF cn.t # "str" THEN Raised("AttributeError")
       ELSE IF ~Hashable(country) THEN Raised("TypeError")
       ELSE IF ~InProviders(country) THEN error_response("Unsupported country", 400)
       ELSE IF Strip(cn.s) = <<>> THEN error_response("Company name is required", 400)
       ELSE IF CalculatePriceRaises(country, company_type) THEN Raised("TypeError")
       ELSE
       LET total == _calculate_price(country, company_type, Bool(FALSE))
       IN success_response(
              [status |-> "ok",
               order |-> [id |-> id, company_name |-> Strip(cn.s),
                          country |-> country.s,
                          provider |-> PROVIDERS[country.s].name,
                          company_type |-> company_type,
                          virtual_address |-> Bool(FALSE),
                          amount |-> total.total, currency |-> total.currency,
                          breakdown |-> total.breakdown,
                          status |-> "pending_payment"]])

OrdersPostHandler(r, id) ==
    IF ~Authorized(r.auth) THEN error_response("Please login first", 401)
    ELSE IF r.kind = "invalid" THEN error_response("Invalid JSON", 400)
    ELSE IF r.kind = "nonobj" THEN Raised("AttributeError")
    ELSE
    LET country == Get(r.body, "country", Str(S.uk))
        cn == Get(r.body, "company_name", Str(<<>>))
        company_type == Get(r.body, "company_type", Str(S.ltd))
        virtual == Get(r.body, "use_virtual_address", Bool(FALSE))
    IN IF cn.t # "str" THEN Raised("AttributeError")
       ELSE IF ~Hashable(country) THEN Raised("TypeError")
       ELSE IF ~InProviders(country) THEN error_response("Unsupported country", 400)
       ELSE IF Strip(cn.s) = <<>> THEN error_response("Company name is required", 400)
       ELSE IF CalculatePriceRaises(country, company_type) THEN Raised("TypeError")
       ELSE
       LET total == _calculate_price(country, company_type, virtual)
       IN success_response(
              [status |-> "ok",
               order |-> [id |-> id, company_name |-> Strip(cn.s),
                          country |-> country.s,
                          provider |-> PROVIDERS[country.s].name,
                          company_type |-> company_type,
                          virtual_address |-> virtual,
                          amount |-> total.total, currency |-> total.currency,
                          breakdown |-> total.breakdown,
                          status |-> "pending_payment"]])

\* GET /api/v1/orders: the two canned orders
OrdersGetHandler(r) ==
    IF ~Authorized(r.auth) THEN error_response("Unauthorized", 401)
    ELSE success_response([orders |-> {"ORD-DEMO001", "ORD-DEMO002"}])

\* GET /api/v1/orders/{id}
OrderDetailHandler(r) ==
    success_response([order |-> [id |-> LastSegment(r.path), status |-> "processing",
                                 company_name |-> "Demo Company Ltd",
                                 country |-> S.uk]])

\* CompaniesHouseXMLGateway.incorporate_company in test mode (xml_gateway is built
\* with test_mode=True): build_incorporation_xml raises when the address has no
\* .get or an element text cannot be serialised; txn is secrets.token_hex(8)
GatewayRaises(company_data) ==
    \/ company_data.registered_office_address.t # "dict"
    \/ company_data.company_type.t \notin {"str", "null"}

incorporate_company(company_data, txn) ==
    [status |-> "submitted", transaction_id |-> txn, company_number |-> "PENDING",
     test_mode |-> TRUE, next_steps |-> "gateway"]

\* Default._get_next_steps
\* a seeded fault: the steps of an api provider for every provider type
NextStepsAlwaysApi(country, provider_type) == "api"

_get_next_steps(country, provider_type) ==
    IF provider_type = "manual" THEN "manual" ELSE "api"

\* Default._get_processing_time
_get_processing_time(country) ==
    CASE country = S.uk -> "3-5 business days"
      [] country = S.sg -> "1-2 business days"
      [] country = S.hk -> "3-5 business days"
      [] country = S.ae -> "5-7 business days"
      [] country = S.us -> "2-5 business days"
      [] OTHER -> "5-7 business days"

\* a seeded fault: the name is tested as sent, without .strip()
CompanyNameUnstripped(cn) == cn.s

\* body.get("company_name", "").strip() of incorporate, for a string value
CompanyNameStripped(cn) == Strip(cn.s)

\* POST /api/v1/companies/incorporate; id is the value secrets.token_hex(8) returns
IncorporateHandler(r, id) ==
    IF ~Authorized(r.auth) THEN error_response("Please login first", 401)
    ELSE IF r.kind = "invalid" THEN error_response("Invalid JSON", 400)
    ELSE IF r.kind = "nonobj" THEN Raised("AttributeError")
    ELSE
    LET c == Get(r.body, "country", Str(S.uk))
        cn == Get(r.body, "company_name", Str(<<>>))
        company_type == Get(r.body, "company_type", Str(S.ltd))
    IN IF c.t # "str" \/ cn.t # "str" THEN Raised("AttributeError")
       ELSE
       LET country == Lower(c.s)
           company_name == CompanyNameStripped(cn)
       IN IF country \notin DOMAIN PROVIDERS
          THEN error_response("Unsupported country. Choose from: uk, sg, hk, ae, us", 400)
          ELSE IF company_name = <<>>
          THEN error_response("Company name is required", 400)
          ELSE IF country = S.uk
          THEN
            LET dn1 == Get(r.body, "director_name", Str(S.John))
                dn2 == Get(r.body, "director_name", Str(S.John \o <<" ">> \o S.Smith))
            IN IF dn1.t # "str" THEN Raised("AttributeError")
               ELSE IF Split(dn1.s) = <<>> THEN Raised("IndexError")
               ELSE
               LET rest == JoinSpace(Tail(Split(dn2.s)))
                   company_data ==
                       [company_name |-> company_name,
                        company_type |-> company_type,
                        registered_office_address |->
                            Get(r.body, "registered_office_address", Dict),
                        directors |->
                            <<[forename |-> Split(dn1.s)[1],
                               surname |-> IF rest # <<>> THEN rest ELSE S.Smith]>>]
               IN IF GatewayRaises(company_data) THEN Raised("TypeError")
                  ELSE
                  LET result == incorporate_company(company_data, id)
                  IN success_response(
                         [status |-> "success",
                          incorporation_id |-> result.transaction_id,
                          country |-> country,
                          provider |-> "Companies House XML Gateway",
                          provider_type |-> "xml_gateway",
                          company_name |-> company_name,
                          company_type |-> company_type,
                          company_number |-> result.company_number,
                          xml_generated |-> TRUE,
                          estimated_processing_time |-> "3-5 business days",
                          next_steps |-> result.next_steps,
                          directors |-> company_data.directors])
          ELSE
            LET provider == PROVIDERS[country]
            IN success_response(
                   [status |-> "success",
                    incorporation_id |-> id,
                    country |-> country,
                    provider |-> provider.name,
                    provider_type |-> provider.type,
                    company_name |-> company_name,
                    company_type |-> company_type,
                    company_number |-> "PENDING",
                    xml_generated |-> FALSE,
                    estimated_processing_time |-> _get_processing_time(country),
                    next_steps |-> _get_next_steps(country, provider.type),
                    directors |-> <<>>])

\* GET /api/v1/companies/search; available is the value random.choice returns
\* a seeded fault: every searched name is available
SearchAlwaysAvailable(r, available) ==
    LET company_name == Get(r.query, "q", Str(<<>>)).s
        country == Get(r.query, "country", Str(S.uk)).s
    IN IF company_name = <<>> THEN error_response("Company name is required", 400)
       ELSE IF country \notin DOMAIN PROVIDERS
       THEN error_response("Unsupported country", 400)
       ELSE success_response([company_name |-> company_name, country |-> country,
                              available |-> TRUE, suggestions |-> 0])

SearchHandler(r, available) ==
    LET company_name == Get(r.query, "q", Str(<<>>)).s
        country == Get(r.query, "country", Str(S.uk)).s
    IN IF company_name = <<>> THEN error_response("Company name is required", 400)
       ELSE IF country \notin DOMAIN PROVIDERS
       THEN error_response("Unsupported country", 400)
       ELSE success_response([company_name |-> company_name, country |-> country,
                              available |-> available,
                              suggestions |-> IF available THEN 0 ELSE 2])

\* POST /api/v1/pricing/calculate
PricingHandler(r) ==
    IF r.kind = "invalid" THEN error_response("Invalid JSON", 400)
    ELSE IF r.kind = "nonobj" THEN Raised("AttributeError")
    ELSE
    LET country == Get(r.body, "country", Str(S.uk))
        company_type == Get(r.body, "company_type", Str(S.ltd))
        virtual == Get(r.body, "virtual_address", Bool(FALSE))
    IN IF ~Hashable(country) THEN Raised("TypeError")
       ELSE IF ~InProviders(country) THEN error_response("Unsupported country", 400)
       ELSE IF CalculatePriceRaises(country, company_type) THEN Raised("TypeError")
       ELSE
       LET pricing == _calculate_price(country, company_type, virtual)
       IN success_response([country |-> country.s, company_type |-> company_type,
                            virtual_address |-> virtual,
                            total |-> pricing.total, currency |-> pricing.currency,
                            breakdown |-> pricing.breakdown])

\* f"ORD-{secrets.token_hex(6).upper()}": the id of an order, as the client sees it
OrderIdText(id) == Str(<<"O", "R", "D", "-", id>>)

\* a seeded fault: the amount is not looked at
PaymentsCreateAnyAmount(r, id) ==
    IF ~Authorized(r.auth) THEN error_response("Please login first", 401)
    ELSE IF r.kind = "invalid" THEN error_response("Invalid JSON", 400)
    ELSE IF r.kind = "nonobj" THEN Raised("AttributeError")
    ELSE
    LET order_id == Get(r.body, "order_id", Str(<<>>))
        amount == Get(r.body, "amount", Num(0))
        currency == Get(r.body, "currency", Str(S.USDT))
    IN IF ~Truthy(order_id)
       THEN error_response("Order ID and amount are required", 400)
       ELSE success_response(
                [status |-> "ok",
                 payment |-> [id |-> id, order_id |-> order_id, amount |-> amount,
                              currency |-> currency,
                              network |-> IF currency = Str(S.USDT) THEN "TRC20"
                                          ELSE "ERC20",
                              status |-> "pending", expires_in |-> 3600]])

\* a seeded fault: a payment is created only for an order that was returned before
PaymentsCreateKnownOrder(r, id) ==
    IF ~Authorized(r.auth) THEN error_response("Please login first", 401)
    ELSE IF r.kind # "obj" THEN error_response("Invalid JSON", 400)
    ELSE IF \A o \in orders : OrderIdText(o) # r.body["order_id"]
    THEN error_response("Order not found", 404)
    ELSE success_response(
             [status |-> "ok",
              payment |-> [id |-> id, order_id |-> r.body["order_id"],
                           amount |-> r.body["amount"], status |-> "pending"]])

\* `amount <= 0` is defined (int, float, bool)
Ordered(v) == v.t \in {"num", "bool"}

\* POST /api/v1/payments/create; id is the value secrets.token_hex(8) returns
PaymentsCreateHandler(r, id) ==
    IF ~Authorized(r.auth) THEN error_response("Please login first", 401)
    ELSE IF r.kind = "invalid" THEN error_response("Invalid JSON", 400)
    ELSE IF r.kind = "nonobj" THEN Raised("AttributeError")
    ELSE
    LET order_id == Get(r.body, "order_id", Str(<<>>))
        amount == Get(r.body, "amount", Num(0))
        currency == Get(r.body, "currency", Str(S.USDT))
    IN IF ~Truthy(order_id)
       THEN error_response("Order ID and amount are required", 400)
       ELSE IF ~Ordered(amount) THEN Raised("TypeError")
       ELSE IF amount.n <= 0
       THEN error_response("Order ID and amount are required", 400)
       ELSE success_response(
                [status |-> "ok",
                 payment |-> [id |-> id, order_id |-> order_id, amount |-> amount,
                              currency |-> currency,
                              network |-> IF currency = Str(S.USDT) THEN "TRC20"
                                          ELSE "ERC20",
                              status |-> "pending", expires_in |-> 3600]])

\* a seeded fault: the webhook reads an unparsable body as {} as the agent handlers do
PaymentsWebhookLenient(r) ==
    IF r.kind = "nonobj" THEN Raised("AttributeError")
    ELSE success_response([status |-> "ok", message |-> "Webhook received"])

\* POST /api/v1/payments/webhook
PaymentsWebhookHandler(r) ==
    IF r.kind = "invalid" THEN error_response("Invalid JSON", 400)
    ELSE IF r.kind = "nonobj" THEN Raised("AttributeError")
    ELSE success_response([status |-> "ok", message |-> "Webhook received"])

\* COUNTRY_REQUIREMENTS: the fee members that GET /api/v1/countries reads
COUNTRY_REQUIREMENTS ==
    (S.uk :> [companies_house_fee |-> 50, acra_fee |-> -1]) @@
    (S.sg :> [companies_house_fee |-> -1, acra_fee |-> 300]) @@
    (S.hk :> [companies_house_fee |-> 200, acra_fee |-> -1]) @@
    (S.ae :> [companies_house_fee |-> -1, acra_fee |-> -1]) @@
    (S.us :> [companies_house_fee |-> -1, acra_fee |-> -1])

\* reqs.get("companies_house_fee", reqs.get("acra_fee", 100)); -1 marks an absent key
ListedBase(code) ==
    LET reqs == COUNTRY_REQUIREMENTS[code]
    IN IF reqs.companies_house_fee # -1 THEN reqs.companies_house_fee
       ELSE IF reqs.acra_fee # -1 THEN reqs.acra_fee
       ELSE DefaultBase

\* GET /api/v1/countries
CountriesHandler(r) ==
    success_response(
        [countries |->
            [code \in DOMAIN PROVIDERS |->
                [type |-> PROVIDERS[code].type,
                 features |-> PROVIDERS[code].features,
                 pricing |-> [base |-> ListedBase(code),
                              currency |-> IF code # S.uk THEN "USD" ELSE "GBP"]]]])

\* GET /api/v1/requirements
RequirementsHandler(r) ==
    LET country == Get(r.query, "country", Str(S.uk)).s
    IN IF country \notin DOMAIN COUNTRY_REQUIREMENTS
       THEN error_response("Unsupported country", 400)
       ELSE success_response([country |-> country,
                              provider |-> PROVIDERS[country]])

----------------------------------------------------------------------------
(* The agent team (src/app/agents/team.py) *)

\* the keys of AgentTeam.agents: AgentRole without ACCOUNTING
Roles == {"ceo", "sales", "support", "registration", "compliance", "payment",
          "marketing"}

\* AgentRole
AgentRole == Roles \cup {"accounting"}

\* None, as the result of AgentTeam.agents.get
NoAgent == "none"


\* the dictionary _execute_task returns, named by the branch that built it
Result(branch) == [branch |-> branch, error |-> ""]

\* _execute_task raised exc
Raises(exc) == [branch |-> "raise", error |-> exc]

\* task.result of a task that has not finished
NoResult == [branch |-> "none", error |-> ""]

\* task.metadata.get(key, default); metadata is the request body
MetaGet(task, key, default) == Get(task.metadata, key, default)

\* CEOAgent._execute_task, after the sleep
CEOExecute(task) ==
    IF task.description.t # "str" THEN Raises("AttributeError")
    ELSE IF StartsWith(task.description.s, S.analyze_performance)
    THEN Result("analyze_performance")
    ELSE Result("message")

\* SalesAgent._execute_task, after the sleep
SalesExecute(task) ==
    IF task.description.t # "str" THEN Raises("AttributeError")
    ELSE IF StartsWith(task.description.s, S.qualify_lead)
    THEN IF task.kind # "obj" THEN Raises("AttributeError") ELSE Result("qualify_lead")
    ELSE IF StartsWith(task.description.s, S.handle_inquiry)
    THEN Result("handle_inquiry")
    ELSE Result("message")

\* responses.get(issue.split()[0].lower(), responses["default"])
TicketResponse(word) ==
    IF Lower(word) \in {S.payment, S.registration, S.kyc, S.default}
    THEN Lower(word)
    ELSE S.default

\* SupportAgent._execute_task, after the sleep
SupportExecute(task) ==
    IF task.description.t # "str" THEN Raises("AttributeError")
    ELSE IF StartsWith(task.description.s, S.handle_ticket)
    THEN IF task.kind # "obj" THEN Raises("AttributeError")
         ELSE
         LET issue == MetaGet(task, "issue", Str(<<>>))
         IN IF issue.t # "str" THEN Raises("AttributeError")
            ELSE IF Split(issue.s) = <<>> THEN Raises("IndexError")
            ELSE [branch |-> "handle_ticket", error |-> "",
                  response |-> TicketResponse(Split(issue.s)[1])]
    ELSE IF StartsWith(task.description.s, S.faq) THEN Result("faq")
    ELSE Result("message")

\* RegistrationAgent._execute_task, after the sleep
RegistrationExecute(task) ==
    IF task.description.t # "str" THEN Raises("AttributeError")
    ELSE IF StartsWith(task.description.s, S.register_company)
    THEN IF task.kind # "obj" THEN Raises("AttributeError")
         ELSE
         LET country == MetaGet(task, "country", Str(S.uk))
             company_name == MetaGet(task, "company_name", Str(<<"N">>))
         IN IF ~Hashable(company_name) \/ ~Hashable(country) THEN Raises("TypeError")
            ELSE Result("register_company")
    ELSE IF StartsWith(task.description.s, S.check_status) THEN Result("check_status")
    ELSE Result("message")

\* ComplianceAgent._execute_task, after the sleep
ComplianceExecute(task) ==
    IF task.description.t # "str" THEN Raises("AttributeError")
    ELSE IF StartsWith(task.description.s, S.verify_kyc)
    THEN IF task.kind # "obj" THEN Raises("AttributeError")
         ELSE IF ~Hashable(MetaGet(task, "applicant_name", Str(<<"A">>)))
         THEN Raises("TypeError")
         ELSE Result("verify_kyc")
    ELSE IF StartsWith(task.description.s, S.risk_assessment)
    THEN Result("risk_assessment")
    ELSE Result("message")

\* `amount * 1.02` is defined (int, float, bool)
Multipliable(v) == v.t \in {"num", "bool"}

\* PaymentAgent._execute_task, after the sleep
PaymentExecute(task) ==
    IF task.description.t # "str" THEN Raises("AttributeError")
    ELSE IF StartsWith(task.description.s, S.process_payment)
    THEN IF task.kind # "obj" THEN Raises("AttributeError")
         ELSE
         LET amount == MetaGet(task, "amount", Num(0))
             currency == MetaGet(task, "currency", Str(S.USDT))
         IN IF currency = Str(S.USDT) /\ ~Multipliable(amount) THEN Raises("TypeError")
            ELSE Result("process_payment")
    ELSE IF StartsWith(task.description.s, S.create_invoice)
    THEN IF task.kind # "obj" THEN Raises("AttributeError") ELSE Result("create_invoice")
    ELSE Result("message")

\* MarketingAgent._execute_task, after the sleep (no endpoint routes a task to it)
MarketingExecute(task) ==
    IF task.description.t # "str" THEN Raises("AttributeError")
    ELSE IF StartsWith(task.description.s, S.generate_content)
    THEN IF task.kind # "obj" THEN Raises("AttributeError")
         ELSE IF ~Hashable(MetaGet(task, "type", Str(<<"s">>)))
         THEN Raises("TypeError")
         ELSE Result("generate_content")
    ELSE IF StartsWith(task.description.s, S.campaign_report)
    THEN Result("campaign_report")
    ELSE Result("message")

\* the _execute_task of the agent that holds the role
_execute_task(task) ==
    CASE task.agent_role = "ceo" -> CEOExecute(task)
      [] task.agent_role = "sales" -> SalesExecute(task)
      [] task.agent_role = "support" -> SupportExecute(task)
      [] task.agent_role = "registration" -> RegistrationExecute(task)
      [] task.agent_role = "compliance" -> ComplianceExecute(task)
      [] task.agent_role = "payment" -> PaymentExecute(task)
      [] OTHER -> MarketingExecute(task)

\* Agent.to_dict of every agent: AgentTeam.get_team_status
get_team_status(ag) ==
    [role \in Roles |-> [status |-> ag[role].status,
                         tasks_completed |-> ag[role].tasks_completed,
                         current_task |-> ag[role].current_task]]

RECURSIVE SumCompleted(_, _)
\* sum(a.agent.tasks_completed for a in self.agents.values())
SumCompleted(ag, roles) ==
    IF roles = {} THEN 0
    ELSE LET role == CHOOSE x \in roles : TRUE
         IN ag[role].tasks_completed + SumCompleted(ag, roles \ {role})

\* AgentTeam.get_team_summary
get_team_summary(ag) ==
    [team_size |-> Cardinality(DOMAIN ag),
     total_tasks_completed |-> SumCompleted(ag, DOMAIN ag),
     active_agents |-> Cardinality({role \in DOMAIN ag : ag[role].status = "active"}),
     busy_agents |-> Cardinality({role \in DOMAIN ag : ag[role].status = "busy"})]

\* GET /api/v1/agents
AgentsHandler(r, ag) ==
    success_response([team |-> get_team_status(ag), summary |-> get_team_summary(ag)])

\* the agents as AgentTeam.__init__ builds them
NewAgents ==
    [role \in Roles |-> [status |-> "active", current_task |-> 0, tasks_completed |-> 0]]

\* no AgentTask has finished
NoTask ==
    [id |-> 0, agent_role |-> "none", description |-> Missing, status |-> "none",
     result |-> NoResult]

\* no request has arrived
NoReq == Request("NONE", <<"">>, <<>>, NoQuery, "invalid", EmptyBody)

\* tasks created so far
RECURSIVE SumDone(_)
SumDone(roles) ==
    IF roles = {} THEN 0
    ELSE LET role == CHOOSE x \in roles : TRUE
         IN done[role].completed + done[role].failed + SumDone(roles \ {role})

Created == Cardinality(DOMAIN tasks) + SumDone(Roles)

----------------------------------------------------------------------------
(* Initial state: the module-level singletons as constructed at import *)

Init ==
    /\ req = NoReq
    /\ resp = NoResp
    /\ issued = {}
    /\ agents = NewAgents
    /\ tasks = <<>>
    /\ done = [role \in Roles |-> [completed |-> 0, failed |-> 0]]
    /\ finished = NoTask
    /\ orders = {}
    /\ outbound = <<>>

----------------------------------------------------------------------------
(* Actions: one per branch of Default.fetch *)

\* the values secrets.token_hex returns in the model
Tokens == {ToString(i) : i \in 1..NumTokens}

\* a handler that keeps no state answers r with out
Respond(r, out) ==
    /\ req' = r
    /\ resp' = out
    /\ outbound' = <<>>
    /\ UNCHANGED <<issued, agents, tasks, done, finished, orders>>

Preflight(Reqs) ==
    \E r \in Reqs : Route(r) = "preflight" /\ Respond(r, PreflightHandler(r))

Root(Reqs) == \E r \in Reqs : Route(r) = "root" /\ Respond(r, RootHandler(r))

Health(Reqs) == \E r \in Reqs : Route(r) = "health" /\ Respond(r, HealthHandler(r))

Providers(Reqs) ==
    \E r \in Reqs : Route(r) = "providers" /\ Respond(r, ProvidersHandler(r))

Countries(Reqs) ==
    \E r \in Reqs : Route(r) = "countries" /\ Respond(r, CountriesHandler(r))

Country(Reqs) == \E r \in Reqs : Route(r) = "country" /\ Respond(r, CountryHandler(r))

McpTools(Reqs) ==
    \E r \in Reqs : Route(r) = "mcp_tools" /\ Respond(r, McpToolsHandler(r))

\* register and login return a token; the code stores it nowhere (issued is history)
AuthRegister(Reqs) ==
    \E r \in Reqs, token \in Tokens :
        /\ Route(r) = "auth_register"
        /\ LET out == AuthRegisterHandler(r, token)
           IN /\ req' = r
              /\ resp' = out
              /\ issued' = IF out.status = 200 THEN issued \cup {token} ELSE issued
        /\ UNCHANGED <<agents, tasks, done, finished, orders, outbound>>

AuthLogin(Reqs) ==
    \E r \in Reqs, token \in Tokens :
        /\ Route(r) = "auth_login"
        /\ LET out == AuthLoginHandler(r, token)
           IN /\ req' = r
              /\ resp' = out
              /\ issued' = IF out.status = 200 THEN issued \cup {token} ELSE issued
        /\ UNCHANGED <<agents, tasks, done, finished, orders, outbound>>

AuthProfile(Reqs) ==
    \E r \in Reqs : Route(r) = "auth_profile" /\ Respond(r, AuthProfileHandler(r))

OrdersPost(Reqs) ==
    \E r \in Reqs, id \in Tokens :
        Route(r) = "orders_post" /\ Respond(r, OrdersPostHandler(r, id))

\* POST /api/v1/orders again, with the ids of the orders it returns kept as history
PlaceOrder(Reqs) ==
    \E r \in Reqs, id \in Tokens :
        /\ Route(r) = "orders_post"
        /\ LET out == OrdersPostHandler(r, id)
           IN /\ req' = r
              /\ resp' = out
              /\ orders' = IF out.kind = "response" /\ out.status = 200
                           THEN orders \cup {id} ELSE orders
        /\ outbound' = <<>>
        /\ UNCHANGED <<issued, agents, tasks, done, finished>>

OrdersGet(Reqs) ==
    \E r \in Reqs : Route(r) = "orders_get" /\ Respond(r, OrdersGetHandler(r))

OrderDetail(Reqs) ==
    \E r \in Reqs : Route(r) = "order_detail" /\ Respond(r, OrderDetailHandler(r))

Incorporate(Reqs) ==
    \E r \in Reqs, id \in Tokens :
        Route(r) = "incorporate" /\ Respond(r, IncorporateHandler(r, id))

Search(Reqs) ==
    \E r \in Reqs, available \in BOOLEAN :
        Route(r) = "search" /\ Respond(r, SearchHandler(r, available))

Pricing(Reqs) == \E r \in Reqs : Route(r) = "pricing" /\ Respond(r, PricingHandler(r))

PaymentsCreate(Reqs) ==
    \E r \in Reqs, id \in Tokens :
        Route(r) = "payments_create" /\ Respond(r, PaymentsCreateHandler(r, id))

PaymentsWebhook(Reqs) ==
    \E r \in Reqs :
        Route(r) = "payments_webhook" /\ Respond(r, PaymentsWebhookHandler(r))

Payments(Reqs) ==
    \E r \in Reqs : Route(r) = "payments" /\ Respond(r, PaymentsHandler(r))

Requirements(Reqs) ==
    \E r \in Reqs : Route(r) = "requirements" /\ Respond(r, RequirementsHandler(r))

NotFound(Reqs) ==
    \E r \in Reqs : Route(r) = "not_found" /\ Respond(r, NotFoundHandler(r))

\* GET /api/v1/agents reads the global agent_team
Agents(Reqs) ==
    \E r \in Reqs : Route(r) = "agents" /\ Respond(r, AgentsHandler(r, agents))

----------------------------------------------------------------------------
(* Agent endpoints: the handler runs up to the sleep inside _execute_task,   *)
(* is suspended there, and TaskFinish resumes it                             *)

\* `try: body = await request.json()  except: body = {}`
ParsedKind(r) == IF r.kind = "invalid" THEN "obj" ELSE r.kind

ParsedBody(r) == IF r.kind = "invalid" THEN EmptyBody ELSE r.body

\* AgentTask(...) then AgentTeam.process_task and BaseAgent.process_task up to
\* `await self._execute_task(task)`, which yields at its asyncio.sleep
StartTask(r, role, description, kind, metadata) ==
    LET id == Created + 1
        task == [id |-> id, agent_role |-> role, description |-> description,
                 kind |-> kind, metadata |-> metadata, status |-> "pending",
                 result |-> NoResult, req |-> r]
    IN /\ tasks' = (id :> task) @@ tasks
       /\ agents' = [agents EXCEPT ![role].status = "processing",
                                   ![role].current_task = id]
       /\ req' = r
       /\ resp' = NoResp
       /\ UNCHANGED <<issued, done, finished, orders, outbound>>

\* the same, for at most MaxTasks tasks in a behaviour
ProcessTaskStart(r, role, description, kind, metadata) ==
    Created < MaxTasks /\ StartTask(r, role, description, kind, metadata)

\* POST /api/v1/agents/ceo
AgentsCeo(Reqs) ==
    \E r \in Reqs :
        /\ Route(r) = "agents_ceo"
        /\ ProcessTaskStart(r, "ceo", Str(S.analyze_performance), "obj", EmptyBody)

\* POST /api/v1/agents/sales
AgentsSales(Reqs) ==
    \E r \in Reqs :
        /\ Route(r) = "agents_sales"
        /\ IF ParsedKind(r) = "nonobj" THEN Respond(r, Raised("AttributeError"))
           ELSE LET action == Get(ParsedBody(r), "action", Str(S.handle_inquiry))
                IN ProcessTaskStart(r, "sales",
                       IF action = Str(S.qualify) THEN Str(S.qualify_lead)
                       ELSE Str(S.handle_inquiry),
                       "obj", ParsedBody(r))

\* POST /api/v1/agents/support
AgentsSupport(Reqs) ==
    \E r \in Reqs :
        /\ Route(r) = "agents_support"
        /\ IF ParsedKind(r) = "nonobj" THEN Respond(r, Raised("AttributeError"))
           ELSE ProcessTaskStart(r, "support", Get(ParsedBody(r), "type", Str(S.faq)),
                                 "obj", ParsedBody(r))

\* POST /api/v1/agents/register
AgentsRegister(Reqs) ==
    \E r \in Reqs :
        /\ Route(r) = "agents_register"
        /\ ProcessTaskStart(r, "registration", Str(S.register_company),
                            ParsedKind(r), ParsedBody(r))

\* POST /api/v1/agents/kyc
AgentsKyc(Reqs) ==
    \E r \in Reqs :
        /\ Route(r) = "agents_kyc"
        /\ ProcessTaskStart(r, "compliance", Str(S.verify_kyc),
                            ParsedKind(r), ParsedBody(r))

\* POST /api/v1/agents/payment
AgentsPayment(Reqs) ==
    \E r \in Reqs :
        /\ Route(r) = "agents_payment"
        /\ IF ParsedKind(r) = "nonobj" THEN Respond(r, Raised("AttributeError"))
           ELSE ProcessTaskStart(r, "payment",
                                 Get(ParsedBody(r), "action", Str(S.process_payment)),
                                 "obj", ParsedBody(r))

\* a seeded fault: a role without an agent is served by the CEO agent
GetAgentFallback(ag, role) == IF role \in DOMAIN ag THEN role ELSE "ceo"

\* self.agents.get(role): the key of the agent, NoAgent for None
get_agent(ag, role) == IF role \in DOMAIN ag THEN role ELSE NoAgent

\* a call of agent_team.process_task(role, task) from outside the Worker's routes
TeamCall(role, description) ==
    [app |-> "team", method |-> "process_task", role |-> role,
     description |-> description]

\* what a direct call returns
TeamReturn(data) == [kind |-> "return", status |-> 0, error |-> "", data |-> data]

\* AgentTeam.process_task: no agent for the role, or the agent's process_task
\* up to its await
TeamProcessTask(roles, descriptions) ==
    \E role \in roles, description \in descriptions :
        LET r == TeamCall(role, description)
            agent == get_agent(agents, role)
        IN IF agent = NoAgent
           THEN /\ req' = r
                /\ resp' = TeamReturn([error |-> "Agent role AgentRole.ACCOUNTING not found"])
                /\ UNCHANGED <<issued, agents, tasks, done, finished, orders,
                               outbound>>
           ELSE /\ Created < MaxCalls
                /\ StartTask(r, agent, description, "obj", EmptyBody)

\* a seeded fault: the second increment of an agent's counter is lost
CountCompletedOnce(n) == IF n = 0 THEN 1 ELSE n

\* a seeded fault: a finished task is not counted
CountCompletedNever(n) == n

\* self.agent.tasks_completed += 1
CountCompleted(n) == n + 1

\* a seeded fault: the except branch leaves the agent as it is
AgentAfterTaskSuccessOnly(a, ok) ==
    IF ok
    THEN [a EXCEPT !.tasks_completed = CountCompleted(@), !.status = "active",
                   !.current_task = 0]
    ELSE a

\* a seeded fault: the agent is counted but never leaves PROCESSING
AgentAfterTaskKeepsStatus(a, ok) ==
    [a EXCEPT !.tasks_completed = IF ok THEN CountCompleted(@) ELSE @]

\* the Agent when process_task ends: the try body after the await (ok), or the
\* except branch
AgentAfterTask(a, ok) ==
    [a EXCEPT !.tasks_completed = IF ok THEN CountCompleted(@) ELSE @,
              !.status = "active",
              !.current_task = 0]

\* the sleep of a suspended task ends: the rest of _execute_task, then the rest of
\* BaseAgent.process_task (try body or except branch), then the handler's
\* success_response({"result": result})
TaskFinishOf(id) ==
    /\ id \in DOMAIN tasks
    /\ LET task == tasks[id]
           role == task.agent_role
           out == _execute_task(task)
           ok == out.branch # "raise"
           result == IF ok THEN out ELSE [branch |-> "error", error |-> out.error]
       IN /\ tasks' = [i \in DOMAIN tasks \ {id} |-> tasks[i]]
          /\ finished' = [id |-> id, agent_role |-> role,
                          description |-> task.description,
                          status |-> IF ok THEN "completed" ELSE "failed",
                          result |-> result]
          /\ agents' = [agents EXCEPT ![role] = AgentAfterTask(@, ok)]
          /\ done' = [done EXCEPT
                 ![role].completed = IF ok THEN @ + 1 ELSE @,
                 ![role].failed = IF ok THEN @ ELSE @ + 1]
          /\ req' = task.req
          /\ resp' = success_response([result |-> result])
          /\ UNCHANGED <<issued, orders, outbound>>

TaskFinish == \E id \in DOMAIN tasks : TaskFinishOf(id)

----------------------------------------------------------------------------
(* The FastAPI application (src/app/main.py) *)

\* a request to the FastAPI application
FastApiRequest(method, path) ==
    [app |-> "fastapi", method |-> method, path |-> path, auth |-> <<>>,
     query |-> NoQuery, kind |-> "invalid", body |-> EmptyBody]

\* health_check, the function @app.get("/health") registers
health_check == [status |-> "healthy", service |-> "opencompanybot"]

\* GET /health of the FastAPI application; the decorator registers no other method
FastApiHealth ==
    /\ Respond(FastApiRequest("GET", p_health), success_response(health_check))

----------------------------------------------------------------------------
(* The FastAPI payment router (src/app/routers/payment.py) and its           *)
(* CCPaymentService (src/app/services/ccpayment.py)                           *)

\* a request to a FastAPI route that takes a JSON body
ApiRequest(method, path, kind, body) ==
    [app |-> "fastapi", method |-> method, path |-> path, auth |-> <<>>,
     query |-> NoQuery, kind |-> kind, body |-> body]

\* `raise HTTPException(status_code=status, detail=detail)`
HTTPException(status, detail) == error_response(detail, status)

\* the 422 FastAPI answers when the body does not fit the handler's parameter
RequestValidationError == error_response("RequestValidationError", 422)

\* CCPaymentService.handle_webhook
handle_webhook(data) ==
    LET order_id == Get(data, "order_id", Null)
        status == Get(data, "status", Null)
    IN IF status = Str(S.success)
       THEN [order_id |-> order_id, status |-> Str(S.paid)]
       ELSE [order_id |-> order_id, status |-> status]

\* a seeded fault: the route returns what handle_webhook returned
PaymentWebhookEcho(r) ==
    IF r.kind # "obj" THEN RequestValidationError
    ELSE success_response(handle_webhook(r.body))

\* payment_webhook: `data: dict` admits JSON objects only; the result of
\* handle_webhook is dropped
payment_webhook(r) ==
    IF r.kind # "obj" THEN RequestValidationError
    ELSE success_response([status |-> Str(S.success)])

\* POST /api/v1/payment/webhook
ApiPaymentWebhook(Reqs) ==
    \E r \in Reqs :
        /\ r.path = p_api(<<"payment", "webhook">>) /\ r.method = "POST"
        /\ Respond(r, payment_webhook(r))

----------------------------------------------------------------------------
(* The FastAPI routes that call an outbound adapter: routers/companies.py,   *)
(* routers/payment.py, routers/mcp.py over services/companies_house.py,      *)
(* services/ccpayment.py and mcp/tools.py.  A handler runs to the await of   *)
(* its one httpx call (ApiCall) and resumes when the upstream has answered   *)
(* (ApiReturn).                                                              *)

\* the route a FastAPI request is dispatched to
ApiRoute(r) ==
    LET rest == SubSeq(r.path, 3, Len(r.path))
    IN IF r.path = p_health /\ r.method = "GET" THEN "health_check"
       ELSE IF Len(r.path) < 3 \/ SubSeq(r.path, 1, 2) # p_api(<<>>) THEN "none"
       ELSE IF rest = <<"companies", "incorporate">> /\ r.method = "POST"
       THEN "incorporate_company"
       ELSE IF rest = <<"companies", "search">> /\ r.method = "POST"
       THEN "search_companies"
       ELSE IF Len(rest) = 2 /\ rest[1] = "companies" /\ r.method = "GET"
       THEN "get_company"
       ELSE IF Len(rest) = 3 /\ rest[1] = "companies" /\ rest[3] = "filing-history"
               /\ r.method = "GET"
       THEN "get_filing_history"
       ELSE IF rest = <<"payment", "create">> /\ r.method = "POST"
       THEN "create_payment"
       ELSE IF Len(rest) = 3 /\ rest[1] = "payment" /\ rest[2] = "status"
               /\ r.method = "GET"
       THEN "get_payment_status"
       ELSE IF rest = <<"payment", "webhook">> /\ r.method = "POST"
       THEN "payment_webhook"
       ELSE IF rest = <<"mcp", "call">> /\ r.method = "POST" THEN "call_tool"
       ELSE "none"

\* the keys execute_tool reads with parameters[...] for each tool it knows
ToolRequired ==
    [register_uk_company |-> {"company_name", "registered_office_address",
                              "directors", "shareholders", "sic_codes"},
     get_company_status |-> {"company_number"},
     search_uk_companies |-> {"query"},
     create_usdt_payment |-> {"amount", "order_id"},
     verify_payment |-> {"order_id"}]

\* MCPTools.list_tools: the advertised tools, each with the "required" list of its
\* input_schema
list_tools ==
    [register_uk_company |-> {"company_name", "registered_office_address",
                              "directors", "shareholders", "sic_codes"},
     get_company_status |-> {"company_number"},
     search_uk_companies |-> {"query"},
     create_usdt_payment |-> {"amount", "order_id"},
     verify_payment |-> {"order_id"}]

\* a seeded fault: verify_payment is dispatched to the Companies House service
ToolMethodMisrouted ==
    [register_uk_company |-> "incorporate_company",
     get_company_status |-> "get_company",
     search_uk_companies |-> "search_companies",
     create_usdt_payment |-> "create_payment",
     verify_payment |-> "get_company"]

\* the service method each tool of execute_tool awaits
ToolMethod ==
    [register_uk_company |-> "incorporate_company",
     get_company_status |-> "get_company",
     search_uk_companies |-> "search_companies",
     create_usdt_payment |-> "create_payment",
     verify_payment |-> "get_payment_status"]

\* the service method the handler of r awaits
ApiMethod(r) ==
    IF ApiRoute(r) = "call_tool" THEN ToolMethod[r.body.tool_name] ELSE ApiRoute(r)

\* what the handler of r does before any outbound call: "call", or the response
\* it gives without calling (422 from pydantic, 400 from execute_tool's
\* ValueError for an unknown tool or KeyError for a missing parameter)
ApiBeforeCall(r) ==
    IF ApiRoute(r) \in {"incorporate_company", "create_payment", "call_tool"}
       /\ (r.kind # "obj" \/ ~r.body.fits)
    THEN RequestValidationError
    ELSE IF ApiRoute(r) = "search_companies" /\ r.query.q = Missing
    THEN RequestValidationError
    ELSE IF ApiRoute(r) # "call_tool" THEN NoResp
    ELSE IF r.body.tool_name \notin DOMAIN ToolRequired
    THEN HTTPException(400, "ValueError")
    ELSE IF ~(ToolRequired[r.body.tool_name] \subseteq r.body.parameters)
    THEN HTTPException(400, "KeyError")
    ELSE NoResp

\* the call is awaiting the upstream's answer
Pending == [kind |-> "pending", status |-> 0, body |-> "none"]

\* the answers of the upstream service to one call: a 2xx with a body (a JSON
\* object that fits the route's response model, one that does not, a JSON
\* array, or no JSON at all), a failing status, or no answer (network error)
UpstreamFailures == {400, 404, 500, 503}

UpstreamResults ==
    {[kind |-> "ok", status |-> 200, body |-> b] :
        b \in {"fit", "misfit", "nonobj", "notjson"}}
    \cup {[kind |-> "status", status |-> s, body |-> "none"] : s \in UpstreamFailures}
    \cup {[kind |-> "network", status |-> 0, body |-> "none"]}

\* the service method raises: client.post / client.get (network error),
\* response.raise_for_status(), response.json(), and for CCPaymentService data.get
ServiceRaises(method, up) ==
    \/ up.kind # "ok"
    \/ up.body = "notjson"
    \/ method \in {"create_payment", "get_payment_status"} /\ up.body = "nonobj"

\* the status of the HTTPException each route raises from `except Exception`
ExceptStatus ==
    [incorporate_company |-> 400, get_company |-> 404, get_filing_history |-> 404,
     search_companies |-> 400, create_payment |-> 400, get_payment_status |-> 404,
     call_tool |-> 400]

\* the routes declared with response_model=
Validated == {"incorporate_company", "get_payment_status"}

\* a seeded fault: the except branch re-raises with the upstream's own status
ApiAnswerPropagate(r, up) ==
    IF ServiceRaises(ApiMethod(r), up)
    THEN HTTPException(IF up.kind = "status" THEN up.status ELSE 500, "Exception")
    ELSE success_response([from |-> ApiMethod(r), upstream |-> up.body])

\* a seeded fault: the except branch answers with an empty success body
ApiAnswerSwallow(r, up) ==
    success_response([from |-> ApiMethod(r), upstream |-> up.body])

\* the handler of r after its service call got the answer up: `return result`,
\* checked against the response model where the route has one, or the except branch
ApiAnswer(r, up) ==
    IF ServiceRaises(ApiMethod(r), up)
    THEN HTTPException(ExceptStatus[ApiRoute(r)], "Exception")
    ELSE IF ApiRoute(r) \in Validated /\ up.body # "fit"
    THEN error_response("ResponseValidationError", 500)
    ELSE success_response([from |-> ApiMethod(r), upstream |-> up.body])

\* a handler up to the await of its outbound call
ApiCall(r) ==
    IF ApiBeforeCall(r) # NoResp THEN Respond(r, ApiBeforeCall(r))
    ELSE /\ req' = r
         /\ resp' = NoResp
         /\ outbound' = <<[method |-> ApiMethod(r), result |-> Pending]>>
         /\ UNCHANGED <<issued, agents, tasks, done, finished, orders>>

\* POST /api/v1/companies/incorporate
ApiIncorporate(Reqs) ==
    \E r \in Reqs : ApiRoute(r) = "incorporate_company" /\ ApiCall(r)

\* GET /api/v1/companies/{company_number}
ApiGetCompany(Reqs) ==
    \E r \in Reqs : ApiRoute(r) = "get_company" /\ ApiCall(r)

\* GET /api/v1/companies/{company_number}/filing-history
ApiFilingHistory(Reqs) ==
    \E r \in Reqs : ApiRoute(r) = "get_filing_history" /\ ApiCall(r)

\* POST /api/v1/companies/search
ApiSearch(Reqs) ==
    \E r \in Reqs : ApiRoute(r) = "search_companies" /\ ApiCall(r)

\* POST /api/v1/payment/create
ApiCreatePayment(Reqs) ==
    \E r \in Reqs : ApiRoute(r) = "create_payment" /\ ApiCall(r)

\* GET /api/v1/payment/status/{order_id}
ApiPaymentStatus(Reqs) ==
    \E r \in Reqs : ApiRoute(r) = "get_payment_status" /\ ApiCall(r)

\* POST /api/v1/mcp/call
ApiCallTool(Reqs) ==
    \E r \in Reqs : ApiRoute(r) = "call_tool" /\ ApiCall(r)

\* the upstream answers the pending call and the handler resumes
ApiReturn ==
    /\ req.app = "fastapi"
    /\ resp = NoResp
    /\ outbound # <<>>
    /\ outbound[Len(outbound)].result = Pending
    /\ \E up \in UpstreamResults :
          /\ outbound' = [outbound EXCEPT ![Len(outbound)].result = up]
          /\ resp' = ApiAnswer(req, up)
    /\ UNCHANGED <<req, issued, agents, tasks, done, finished, orders>>

----------------------------------------------------------------------------
(* Inputs *)

Methods == {"GET", "POST", "PUT", "DELETE", "OPTIONS"}

s_acme == <<"A", "c">>

\* Authorization header values: absent, "Bearer", "Bearer <token>", "xBearer <token>"
\* (the word inside another), "bearer <token>" (other case), "Basic <token>"
BearerToken(token) == S.BearerSp \o <<token>>

AuthValues ==
    {<<>>, S.Bearer, <<"x">> \o BearerToken("1"), Lower(BearerToken("1")),
     <<"B", "a", "s", "i", "c", " ", "1">>, <<" ">> \o S.Bearer}
    \cup {BearerToken(token) : token \in Tokens}

Get_(path, auth) == Request("GET", path, auth, NoQuery, "invalid", EmptyBody)

Post(path, auth, kind, body) == Request("POST", path, auth, NoQuery, kind, body)

\* a body that is not a JSON text, and one that is JSON but no object
BadBodies(path, auth) ==
    {Post(path, auth, "invalid", EmptyBody), Post(path, auth, "nonobj", EmptyBody)}

PathsKnown ==
    {p_root, p_health, p_api(<<"providers">>), p_api(<<"countries">>),
     p_api(<<"countries", "uk">>), p_api(<<"countries", "xx">>),
     p_api(<<"countries", "">>), p_api(<<"mcp", "tools">>), p_api(<<"agents">>),
     p_api(<<"agents", "ceo">>), p_api(<<"agents", "sales">>),
     p_api(<<"agents", "support">>), p_api(<<"agents", "register">>),
     p_api(<<"agents", "kyc">>), p_api(<<"agents", "payment">>),
     p_api(<<"agents", "marketing">>),
     p_api(<<"auth", "register">>), p_api(<<"auth", "login">>),
     p_api(<<"auth", "profile">>), p_api(<<"orders">>), p_api(<<"orders", "ORD-1">>),
     p_api(<<"orders", "">>), p_api(<<"companies", "incorporate">>),
     p_api(<<"companies", "search">>), p_api(<<"pricing", "calculate">>),
     p_api(<<"payments", "create">>), p_api(<<"payments", "webhook">>),
     p_api(<<"payments">>), p_api(<<"requirements">>), <<"health", "">>,
     <<"nowhere">>}

\* values a caller can send for a key the handler expects a string under
StringOrNot(strings) == {Missing, Null, Num(5), Bool(TRUE), Dict, List}
                            \cup {Str(x) : x \in strings}

CountryValues ==
    StringOrNot({S.uk, <<"U", "K">>, S.sg, S.hk, S.ae, S.us, <<"x", "x">>, <<>>})

CompanyNameValues == StringOrNot({<<>>, <<" ">>, <<" ", " ">>, s_acme, <<" ", "A", " ">>})

CompanyTypeValues ==
    {Missing, Null, Num(5), Dict, Str(S.ltd), Str(S.llp), Str(S.pte_ltd),
     Str(S.freezone), Str(S.llc), Str(<<"x">>)}

VirtualValues == {Missing, Bool(TRUE), Bool(FALSE)}

DirectorValues ==
    {Missing, Null, Num(5), Str(<<>>), Str(<<" ">>), Str(S.John),
     Str(S.John \o <<" ">> \o S.Smith),
     Str(<<" ">> \o S.John \o <<" ", " ">> \o S.Smith \o <<" ", "J", "r">>)}

AddressValues == {Missing, Dict, Str(<<"x">>), Null}

AmountValues == {Missing, Null, Num(0), Num(-1), Num(5), Bool(TRUE), Str(<<"5">>), Dict}

OrderIdValues == {Missing, Null, Str(<<>>), Str(<<"O", "1">>), Num(7)}

CurrencyValues == {Missing, Str(S.USDT), Str(<<"B", "T", "C">>)}

EmailValues == StringOrNot({<<>>, <<" ">>, <<"A", "@", "b">>})

PasswordValues ==
    {Missing, Null, Num(5), List, Str(<<>>), Str(<<"p", "w">>),
     Str(<<"s", "e", "c", "r", "e", "t">>)}

\* the requests of the single-request specification, by endpoint
AnyRouteRequests ==
    {Request(m, path, auth, NoQuery, kind, EmptyBody) :
        m \in Methods, path \in PathsKnown, auth \in {<<>>, BearerToken("1")},
        kind \in {"invalid", "nonobj", "obj"}}

OrdersRequests ==
    {Post(p_api(<<"orders">>), auth, "obj",
          [EmptyBody EXCEPT !["country"] = c, !["company_name"] = n,
                            !["company_type"] = t, !["use_virtual_address"] = v]) :
        auth \in {<<>>, S.Bearer, BearerToken("1"), Lower(BearerToken("1"))},
        c \in CountryValues, n \in CompanyNameValues,
        t \in {Missing, Str(S.llp), Dict}, v \in VirtualValues}
    \cup UNION {BadBodies(p_api(<<"orders">>), auth) : auth \in AuthValues}
    \cup {Get_(p_api(<<"orders">>), auth) : auth \in AuthValues}

IncorporateRequests ==
    {Post(p_api(<<"companies", "incorporate">>), auth, "obj",
          [EmptyBody EXCEPT !["country"] = c, !["company_name"] = n,
                            !["company_type"] = t]) :
        auth \in AuthValues, c \in CountryValues, n \in CompanyNameValues,
        t \in CompanyTypeValues}
    \cup {Post(p_api(<<"companies", "incorporate">>), BearerToken("1"), "obj",
          [EmptyBody EXCEPT !["country"] = c, !["company_name"] = Str(s_acme),
                            !["director_name"] = d,
                            !["registered_office_address"] = a]) :
        c \in {Missing, Str(S.sg)}, d \in DirectorValues, a \in AddressValues}
    \cup UNION {BadBodies(p_api(<<"companies", "incorporate">>), auth) : auth \in AuthValues}

PaymentsCreateRequests ==
    {Post(p_api(<<"payments", "create">>), auth, "obj",
          [EmptyBody EXCEPT !["order_id"] = o, !["amount"] = a, !["currency"] = c]) :
        auth \in {<<>>, S.Bearer, BearerToken("1")},
        o \in OrderIdValues, a \in AmountValues, c \in CurrencyValues}
    \cup UNION {BadBodies(p_api(<<"payments", "create">>), auth) : auth \in AuthValues}

AuthRequests ==
    {Post(path, <<>>, "obj",
          [EmptyBody EXCEPT !["email"] = e, !["password"] = pw, !["name"] = n]) :
        path \in {p_api(<<"auth", "register">>), p_api(<<"auth", "login">>)},
        e \in EmailValues, pw \in PasswordValues,
        n \in {Missing, Num(5), Str(<<"N">>)}}
    \cup {Get_(p_api(<<"auth", "profile">>), auth) : auth \in AuthValues}

PricingRequests ==
    {Post(p_api(<<"pricing", "calculate">>), <<>>, "obj",
          [EmptyBody EXCEPT !["country"] = c, !["company_type"] = t,
                            !["virtual_address"] = v]) :
        c \in CountryValues, t \in CompanyTypeValues, v \in VirtualValues}

SearchRequests ==
    {Request("GET", path, <<>>, [q |-> q, country |-> c], "invalid", EmptyBody) :
        path \in {p_api(<<"companies", "search">>), p_api(<<"requirements">>)},
        q \in {Missing, Str(s_acme)},
        c \in {Missing, Str(S.uk), Str(S.ae), Str(<<"U", "K">>), Str(<<"x", "x">>)}}

WebhookRequests ==
    {Post(p_api(<<"payments", "webhook">>), <<>>, "obj",
          [EmptyBody EXCEPT !["order_id"] = o, !["status"] = st]) :
        o \in {Missing, Str(<<"O", "1">>)},
        st \in {Missing, Str(<<"p", "a", "i", "d">>), Num(1)}}

DescriptionValues ==
    {Missing, Null, Num(5), Str(<<>>), Str(S.faq), Str(S.handle_ticket),
     Str(S.handle_ticket \o <<"s">>), Str(S.process_payment), Str(S.create_invoice),
     Str(S.qualify), Str(S.qualify_lead), Str(<<"x">>)}

IssueValues ==
    {Missing, Null, Num(5), Str(<<>>), Str(<<" ">>), Str(S.payment),
     Str(<<"K", "Y", "C", " ", "x">>), Str(<<"x">>)}

AgentRequests ==
    {Post(p_api(<<"agents", "sales">>), <<>>, "obj", [EmptyBody EXCEPT !["action"] = a]) :
        a \in DescriptionValues}
    \cup {Post(p_api(<<"agents", "support">>), <<>>, "obj",
               [EmptyBody EXCEPT !["type"] = t, !["issue"] = i]) :
            t \in DescriptionValues, i \in IssueValues}
    \cup {Post(p_api(<<"agents", "payment">>), <<>>, "obj",
               [EmptyBody EXCEPT !["action"] = a, !["amount"] = m, !["currency"] = c]) :
            a \in DescriptionValues, m \in AmountValues, c \in CurrencyValues}
    \cup {Post(p_api(<<"agents", "register">>), <<>>, "obj",
               [EmptyBody EXCEPT !["country"] = c, !["company_name"] = n]) :
            c \in {Missing, Str(S.sg), Dict}, n \in {Missing, Str(s_acme), List}}
    \cup {Post(p_api(<<"agents", "kyc">>), <<>>, "obj",
               [EmptyBody EXCEPT !["applicant_name"] = n]) :
            n \in {Missing, Str(s_acme), Dict}}


\* a token value that secrets.token_hex never returns in the model
Forged == "0"

\* the requests of the specification of the whole service, by endpoint
CoreAuth == {<<>>, BearerToken(Forged)} \cup {BearerToken(token) : token \in Tokens}

CoreGets ==
    {Get_(path, <<>>) :
        path \in {p_root, p_api(<<"providers">>), p_api(<<"countries">>),
                  p_api(<<"countries", "uk">>), p_api(<<"mcp", "tools">>),
                  p_api(<<"agents">>), p_api(<<"orders", "ORD-1">>),
                  p_api(<<"payments">>), p_api(<<"requirements">>), <<"nowhere">>}}
    \cup {Request(m, p_health, <<>>, NoQuery, kind, EmptyBody) :
            m \in Methods, kind \in {"invalid", "obj"}}
    \cup {Request("GET", p_api(<<"companies", "search">>), <<>>,
                  [q |-> Str(s_acme), country |-> Missing], "invalid", EmptyBody)}
    \cup {Get_(path, auth) :
            path \in {p_api(<<"auth", "profile">>), p_api(<<"orders">>)},
            auth \in CoreAuth}

CoreUser ==
    [EmptyBody EXCEPT !["email"] = Str(<<"A", "@", "b">>),
                      !["password"] = Str(<<"s", "e", "c", "r", "e", "t">>)]

CoreCompany == [EmptyBody EXCEPT !["company_name"] = Str(s_acme)]

CorePayment == [EmptyBody EXCEPT !["order_id"] = Str(<<"O", "1">>), !["amount"] = Num(5)]

CorePosts ==
    {Post(path, <<>>, "obj", CoreUser) :
        path \in {p_api(<<"auth", "register">>), p_api(<<"auth", "login">>)}}
    \cup {Post(path, auth, "obj", CoreCompany) :
            path \in {p_api(<<"orders">>), p_api(<<"companies", "incorporate">>)},
            auth \in CoreAuth}
    \cup {Post(p_api(<<"payments", "create">>), auth, "obj", CorePayment) :
            auth \in CoreAuth}
    \cup {Post(path, <<>>, "obj", EmptyBody) :
            path \in {p_api(<<"pricing", "calculate">>),
                      p_api(<<"payments", "webhook">>)}}

CoreAgentPosts ==
    {Post(p_api(<<"agents", role>>), <<>>, "obj", EmptyBody) :
        role \in {"ceo", "sales", "support", "register", "kyc", "payment"}}
    \cup {Post(p_api(<<"agents", "support">>), <<>>, "obj",
               [EmptyBody EXCEPT !["type"] = Str(S.handle_ticket)])}

CoreRequests == CoreGets \cup CorePosts \cup CoreAgentPosts

\* the branches of fetch
Routes ==
    {"preflight", "root", "health", "providers", "countries", "country", "mcp_tools",
     "agents", "agents_ceo", "agents_sales", "agents_support", "agents_register",
     "agents_kyc", "agents_payment", "auth_register", "auth_login", "auth_profile",
     "orders_post", "orders_get", "order_detail", "incorporate", "search", "pricing",
     "payments_create", "payments_webhook", "payments", "requirements", "not_found"}

\* the requests of CoreRequests that reach each branch of fetch
CoreByRoute == [route \in Routes |-> {r \in CoreRequests : Route(r) = route}]

CoreFor(route) == CoreByRoute[route]

----------------------------------------------------------------------------
(* Spec: the whole service, any sequence of requests, handlers interleaved *)
(* at their await                                                          *)

Serve(R(_)) ==
    \/ Preflight(R("preflight"))
    \/ Root(R("root"))
    \/ Health(R("health"))
    \/ Providers(R("providers"))
    \/ Countries(R("countries"))
    \/ Country(R("country"))
    \/ McpTools(R("mcp_tools"))
    \/ Agents(R("agents"))
    \/ AgentsCeo(R("agents_ceo"))
    \/ AgentsSales(R("agents_sales"))
    \/ AgentsSupport(R("agents_support"))
    \/ AgentsRegister(R("agents_register"))
    \/ AgentsKyc(R("agents_kyc"))
    \/ AgentsPayment(R("agents_payment"))
    \/ AuthRegister(R("auth_register"))
    \/ AuthLogin(R("auth_login"))
    \/ AuthProfile(R("auth_profile"))
    \/ OrdersPost(R("orders_post"))
    \/ OrdersGet(R("orders_get"))
    \/ OrderDetail(R("order_detail"))
    \/ Incorporate(R("incorporate"))
    \/ Search(R("search"))
    \/ Pricing(R("pricing"))
    \/ PaymentsCreate(R("payments_create"))
    \/ PaymentsWebhook(R("payments_webhook"))
    \/ Payments(R("payments"))
    \/ Requirements(R("requirements"))
    \/ NotFound(R("not_found"))

Next == Serve(CoreFor) \/ TaskFinish \/ FastApiHealth

Spec == Init /\ [][Next]_vars

----------------------------------------------------------------------------
(* SpecRequest: one request, drawn from the input sets, sent to the service   *)
(* as built                                                                  *)

InitRequest ==
    /\ \/ req \in AnyRouteRequests
       \/ req \in OrdersRequests
       \/ req \in IncorporateRequests
       \/ req \in PaymentsCreateRequests
       \/ req \in AuthRequests
       \/ req \in PricingRequests
       \/ req \in SearchRequests
       \/ req \in WebhookRequests
       \/ req \in AgentRequests
    /\ resp = NoResp
    /\ issued = {}
    /\ agents = NewAgents
    /\ tasks = <<>>
    /\ done = [role \in Roles |-> [completed |-> 0, failed |-> 0]]
    /\ finished = NoTask
    /\ orders = {}
    /\ outbound = <<>>

\* the request has not been dispatched
Waiting == resp = NoResp /\ Created = 0

\* the request of this behaviour, whatever branch it reaches
Own(route) == {req}

NextRequest == (Waiting /\ Serve(Own)) \/ TaskFinish

SpecRequest == InitRequest /\ [][NextRequest]_vars

----------------------------------------------------------------------------
(* SpecApi: the FastAPI application, one request after another, with the     *)
(* Worker's webhook route beside it                                          *)

\* webhook bodies: no status, a status the services know, another one, a number
ApiWebhookRequests ==
    {ApiRequest("POST", p_api(<<"payment", "webhook">>), "obj",
                [EmptyBody EXCEPT !["order_id"] = o, !["status"] = st]) :
        o \in {Missing, Str(<<"O", "1">>)},
        st \in {Missing, Str(S.success), Str(S.paid), Str(S.ok), Num(1)}}
    \cup {ApiRequest("POST", p_api(<<"payment", "webhook">>), kind, EmptyBody) :
            kind \in {"invalid", "nonobj"}}

WorkerWebhookRequests ==
    WebhookRequests
    \cup {Post(p_api(<<"payments", "webhook">>), <<>>, "obj",
               [EmptyBody EXCEPT !["status"] = st]) :
            st \in {Str(S.success), Str(S.ok)}}

\* the body of a FastAPI route that pydantic has checked
Fits == [fits |-> TRUE]

ApiBodies == {Fits, [fits |-> FALSE]}

ToolBodies ==
    {[fits |-> TRUE, tool_name |-> tool, parameters |-> params] :
        tool \in DOMAIN ToolRequired \cup {"unknown"},
        params \in {{}, {"amount"}, {"order_id"},
                    {"company_name", "registered_office_address", "directors",
                     "shareholders"},
                    {"company_name", "registered_office_address", "directors",
                     "shareholders", "sic_codes", "company_number", "query",
                     "amount", "order_id"}}}
    \cup {[fits |-> FALSE, tool_name |-> "unknown", parameters |-> {}]}

ApiAdapterRequests ==
    {ApiRequest("POST", p_api(<<"companies", "incorporate">>), "obj", b) :
        b \in ApiBodies}
    \cup {ApiRequest("POST", p_api(<<"payment", "create">>), kind, Fits) :
            kind \in {"obj", "invalid"}}
    \cup {ApiRequest("POST", p_api(<<"payment", "create">>), "obj", [fits |-> FALSE])}
    \cup {ApiRequest("GET", path, "invalid", Fits) :
            path \in {p_api(<<"companies", "12345678">>),
                      p_api(<<"companies", "12345678", "filing-history">>),
                      p_api(<<"payment", "status", "O1">>)}}
    \cup {[ApiRequest("POST", p_api(<<"companies", "search">>), "invalid", Fits)
              EXCEPT !.query = [q |-> q, country |-> Missing]] :
            q \in {Missing, Str(s_acme)}}
    \cup {ApiRequest("POST", p_api(<<"mcp", "call">>), "obj", b) : b \in ToolBodies}

\* no handler is waiting for an upstream answer
Idle == ~(req.app = "fastapi" /\ resp = NoResp)

NextApi ==
    \/ Idle /\ ApiPaymentWebhook(ApiWebhookRequests)
    \/ Idle /\ PaymentsWebhook(WorkerWebhookRequests)
    \/ Idle /\ FastApiHealth
    \/ Idle /\ ApiIncorporate(ApiAdapterRequests)
    \/ Idle /\ ApiGetCompany(ApiAdapterRequests)
    \/ Idle /\ ApiFilingHistory(ApiAdapterRequests)
    \/ Idle /\ ApiSearch(ApiAdapterRequests)
    \/ Idle /\ ApiCreatePayment(ApiAdapterRequests)
    \/ Idle /\ ApiPaymentStatus(ApiAdapterRequests)
    \/ Idle /\ ApiCallTool(ApiAdapterRequests)
    \/ ApiReturn

SpecApi == Init /\ [][NextApi]_vars

----------------------------------------------------------------------------
(* SpecOrders: orders and payments, any sequence of the two POSTs *)

OrderFlowRequests ==
    {Post(p_api(<<"orders">>), auth, "obj",
          [EmptyBody EXCEPT !["company_name"] = n, !["country"] = c,
                            !["company_type"] = t,
                            !["use_virtual_address"] = u,
                            !["virtual_address"] = v]) :
        auth \in {<<>>, BearerToken("1")},
        n \in {Missing, Str(s_acme)},
        c \in {Missing, Str(S.uk), Str(S.sg), Str(<<"x", "x">>)},
        t \in {Missing, Dict, Str(S.llp)},
        u \in VirtualValues, v \in {Missing, Bool(TRUE)}}
    \cup {Post(p_api(<<"payments", "create">>), auth, "obj",
               [EmptyBody EXCEPT !["order_id"] = o, !["amount"] = a,
                                 !["currency"] = c]) :
            auth \in {<<>>, BearerToken("1")},
            o \in {Missing, Str(<<>>), Num(7)}
                   \cup {OrderIdText(id) : id \in Tokens \cup {Forged}},
            a \in {Missing, Num(0), Num(-1), Num(1)},
            c \in {Missing, Str(S.USDT)}}

NextOrders ==
    \/ PlaceOrder(OrderFlowRequests)
    \/ PaymentsCreate(OrderFlowRequests)

SpecOrders == Init /\ [][NextOrders]_vars

----------------------------------------------------------------------------
(* SpecTeam: the agent team called directly, for every AgentRole *)

\* "generate_content" is a prefix of the marketing agent only; "handle_ticket"
\* fails on the support agent (no issue in the metadata) and gets the generic
\* message elsewhere
TeamDescriptions == {Str(S.generate_content), Str(S.handle_ticket)}

\* an agent with prefixes, one with none, the one both descriptions matter to,
\* and the role without an agent
TeamRoles == {"ceo", "marketing", "support", "accounting"}

NextTeam ==
    \/ TeamProcessTask(TeamRoles, TeamDescriptions)
    \/ TaskFinish
    \/ Agents(CoreFor("agents"))

SpecTeam == Init /\ [][NextTeam]_vars

\* asyncio.sleep returns: the event loop resumes every suspended call
TeamFairness == \A id \in 1..MaxCalls : WF_vars(TaskFinishOf(id))

SpecTeamLive == SpecTeam /\ TeamFairness

----------------------------------------------------------------------------
(* SpecPrice: _calculate_price as a function of its arguments *)

PriceInputs ==
    [country : {Str(c) : c \in DOMAIN PROVIDERS \cup {<<"x", "x">>, <<"U", "K">>}}
                   \cup {Dict},
     company_type : CompanyTypeValues \ {Missing},
     virtual : {Bool(TRUE), Bool(FALSE)}]

InitPrice ==
    /\ req \in PriceInputs
    /\ resp = NoResp
    /\ issued = {}
    /\ agents = NewAgents
    /\ tasks = <<>>
    /\ done = [role \in Roles |-> [completed |-> 0, failed |-> 0]]
    /\ finished = NoTask
    /\ orders = {}
    /\ outbound = <<>>

CalculatePrice ==
    /\ resp = NoResp
    /\ resp' = IF CalculatePriceRaises(req.country, req.company_type)
                THEN Raised("TypeError")
                ELSE success_response(_calculate_price(req.country, req.company_type,
                                                       req.virtual))
    /\ UNCHANGED <<req, issued, agents, tasks, done, finished, orders, outbound>>

NextPrice == CalculatePrice

SpecPrice == InitPrice /\ [][NextPrice]_vars

----------------------------------------------------------------------------
(* Properties *)

\* the handler of req has finished
Answered == resp.kind # "none"

\* req is a request to the Worker with this method and path
Is(method, path) == req.app = "worker" /\ req.method = method /\ req.path = path

\* req is a request to the Worker that reaches one of these branches of fetch
Reaches(routes) == req.app = "worker" /\ Route(req) \in routes

\* a body value that carries no company name: absent, empty or whitespace only
Blank(v) == v = Missing \/ (v.t = "str" /\ \A i \in DOMAIN v.s : v.s[i] = " ")

\* C1: for every country of the provider table, every company type and both values
\* of the virtual flag, the total _calculate_price returns is base + government_fee
\* + virtual_address of its breakdown, government_fee is 50 exactly for "uk" and
\* virtual_address is 50 exactly when the flag is true.
C1_PriceIsSumOfBreakdown ==
    (resp.kind = "response" /\ InProviders(req.country)) =>
        LET b == resp.data.breakdown
        IN /\ resp.data.total = b.base + b.government_fee + b.virtual_address
           /\ b.government_fee = (IF req.country.s = S.uk THEN 50 ELSE 0)
           /\ b.virtual_address = (IF req.virtual = Bool(TRUE) THEN 50 ELSE 0)

C1_Witness ==
    /\ resp.kind = "response"
    /\ req.country = Str(S.uk) /\ req.company_type = Str(S.llp)
    /\ req.virtual = Bool(TRUE)
    /\ resp.data.total = 139

\* C2: a POST to /api/v1/orders whose Authorization header does not contain
\* "Bearer" is answered 401 with no order, whatever its body is.
C2_OrdersNeedBearer ==
    (Is("POST", p_api(<<"orders">>)) /\ Answered /\ ~Contains(req.auth, S.Bearer)) =>
        /\ resp.kind = "response"
        /\ resp.status = 401
        /\ resp.data = NoData

C2_Witness ==
    /\ Is("POST", p_api(<<"orders">>)) /\ Answered
    /\ req.auth = Lower(BearerToken("1"))
    /\ req.kind = "obj"
    /\ req.body["company_name"] = Str(s_acme) /\ req.body["country"] = Str(S.sg)
    /\ resp.status = 401

\* C3 as stated: a POST to /api/v1/companies/incorporate whose body has no
\* company_name is answered 400 "Company name is required" whatever the
\* Authorization header, the country and the other fields are.
C3_Original ==
    (Is("POST", p_api(<<"companies", "incorporate">>)) /\ Answered
        /\ req.kind = "obj" /\ Blank(req.body["company_name"])) =>
        /\ resp.kind = "response"
        /\ resp.status = 400
        /\ resp.error = "Company name is required"

\* the country of the body is absent or a string that lower-cases to a key of PROVIDERS
SupportedCountry(v) == v = Missing \/ (v.t = "str" /\ Lower(v.s) \in DOMAIN PROVIDERS)

\* C3 as amended: such a POST is answered 400 "Company name is required" when its
\* Authorization header contains "Bearer" and its country is absent or lower-cases
\* to a supported country; without the header it is answered 401, with it and
\* another string as country 400 with the unsupported-country message, and with it
\* and a country that is no string the handler raises AttributeError.
C3_NameRequiredAfterAuthAndCountry ==
    (Is("POST", p_api(<<"companies", "incorporate">>)) /\ Answered
        /\ req.kind = "obj" /\ Blank(req.body["company_name"])) =>
        IF ~Contains(req.auth, S.Bearer)
        THEN resp.kind = "response" /\ resp.status = 401
        ELSE IF SupportedCountry(req.body["country"])
        THEN /\ resp.kind = "response"
             /\ resp.status = 400
             /\ resp.error = "Company name is required"
        ELSE IF req.body["country"].t = "str"
        THEN /\ resp.kind = "response"
             /\ resp.status = 400
             /\ resp.error # "Company name is required"
        ELSE resp = Raised("AttributeError")

C3_Witness ==
    /\ Is("POST", p_api(<<"companies", "incorporate">>)) /\ Answered
    /\ req.auth = S.Bearer
    /\ req.body["country"] = Str(<<"U", "K">>)
    /\ req.body["company_name"] = Str(<<" ", " ">>)
    /\ req.body["company_type"] = Dict
    /\ resp.status = 400 /\ resp.error = "Company name is required"

\* C4 as stated: a request to /health is answered with success and status "healthy"
\* for every method, OPTIONS among them.
C4_Original ==
    (Is(req.method, p_health) /\ Answered) =>
        resp.kind = "response" /\ resp.status = 200 /\ resp.data.status = "healthy"

\* C4 as amended: the Worker answers /health with 200 and status "healthy" for GET,
\* POST, PUT and DELETE, whatever the body and the state of the agent team; OPTIONS
\* is answered by the CORS preflight, 204 with an empty body; the FastAPI
\* application answers GET /health with status "healthy".
C4_HealthExceptPreflight ==
    (req.path = p_health /\ Answered) =>
        /\ resp.kind = "response"
        /\ IF req.app = "worker" /\ req.method = "OPTIONS"
           THEN resp.status = 204 /\ resp.data = NoData
           ELSE resp.status = 200 /\ resp.data.status = "healthy"

C4_Witness ==
    /\ Is("DELETE", p_health) /\ req.kind = "obj"
    /\ resp.status = 200 /\ resp.data.status = "healthy"
    /\ \E role \in Roles : agents[role].status = "processing"

\* C5: every request to the Worker ends in a response, a success or a 400, 401 or
\* 404 with an error message; no request makes the handler raise.
C5_AlwaysAResponse ==
    (req.app = "worker" /\ Answered) =>
        /\ resp.kind = "response"
        /\ \/ resp.status \in {200, 204}
           \/ resp.status \in {400, 401, 404} /\ resp.error # ""

\* the UK incorporation of company "Ac" with an empty director_name raises
C5_Witness ==
    /\ Is("POST", p_api(<<"companies", "incorporate">>))
    /\ req.auth = BearerToken("1") /\ req.kind = "obj"
    /\ req.body["country"] = Missing
    /\ req.body["company_name"] = Str(s_acme)
    /\ req.body["director_name"] = Str(<<>>)
    /\ resp = Raised("IndexError")

\* the branches of fetch that read the request body, and those among them that
\* belong to the agent endpoints
BodyRoutes ==
    {"agents_sales", "agents_support", "agents_register", "agents_kyc",
     "agents_payment", "auth_register", "auth_login", "orders_post", "incorporate",
     "pricing", "payments_create", "payments_webhook"}

AgentBodyRoutes ==
    {"agents_sales", "agents_support", "agents_register", "agents_kyc", "agents_payment"}

\* C6 as stated: every POST handler that reads a body answers a body that is not
\* valid JSON with 400 and does none of its work.
C6_Original ==
    (Reaches(BodyRoutes) /\ req.kind = "invalid") =>
        /\ Created = 0
        /\ issued = {}
        /\ Answered => resp.kind = "response" /\ resp.status = 400

\* C6 as amended: a POST handler that reads a body and is not one of the five agent
\* handlers answers a body that is not valid JSON with 400 "Invalid JSON" and no
\* token, order, payment or incorporation, once the request has passed the
\* handler's Authorization check if it has one (401 otherwise); the five agent
\* handlers read such a body as {} and run their task, answering 200.
C6_InvalidJson ==
    (Reaches(BodyRoutes) /\ req.kind = "invalid") =>
        IF Route(req) \in AgentBodyRoutes
        THEN Answered => /\ resp.kind = "response" /\ resp.status = 200
                          /\ Created = 1
                          /\ finished.status = "completed"
        ELSE /\ Created = 0
             /\ issued = {}
             /\ Answered =>
                  /\ resp.kind = "response"
                  /\ resp.data = NoData
                  /\ IF Route(req) \in {"orders_post", "incorporate", "payments_create"}
                        /\ ~Contains(req.auth, S.Bearer)
                     THEN resp.status = 401
                     ELSE resp.status = 400 /\ resp.error = "Invalid JSON"

C6_Witness ==
    /\ Reaches({"payments_webhook"}) /\ req.kind = "invalid"
    /\ resp.status = 400 /\ resp.error = "Invalid JSON"

\* the branches of fetch that check the Authorization header
AuthRoutes ==
    {"auth_profile", "orders_post", "orders_get", "incorporate", "payments_create"}

\* C7 as stated: each endpoint that checks authorization answers 401 exactly when
\* the Authorization header does not contain the substring "Bearer".
C7_Original ==
    (Reaches(AuthRoutes) /\ Answered) =>
        (resp.kind = "response" /\ resp.status = 401) = ~Contains(req.auth, S.Bearer)

\* C7 as amended: POST and GET /api/v1/orders, POST /api/v1/companies/incorporate
\* and POST /api/v1/payments/create answer 401 exactly when the Authorization
\* header does not contain the substring "Bearer"; GET /api/v1/auth/profile answers
\* 401 exactly when the header does not start with "Bearer " (the word and a space).
C7_BearerRule ==
    (Reaches(AuthRoutes) /\ Answered) =>
        (resp.kind = "response" /\ resp.status = 401) =
            (IF Route(req) = "auth_profile"
             THEN ~StartsWith(req.auth, S.BearerSp)
             ELSE ~Contains(req.auth, S.Bearer))

C7_Witness ==
    /\ Reaches({"auth_profile"}) /\ Answered
    /\ req.auth = <<"x">> \o BearerToken("1")
    /\ Contains(req.auth, S.Bearer)
    /\ resp.status = 401

\* C8: whatever tokens register and login have issued so far, a request to an
\* endpoint that checks authorization is accepted when its header carries a token
\* that was never issued, just as when it carries an issued one, and is answered
\* 401 without a header even after tokens were issued.
C8_TokensNeverChecked ==
    (Reaches(AuthRoutes) /\ Answered) =>
        /\ (\E token \in Tokens \cup {Forged} : req.auth = BearerToken(token)) =>
              ~(resp.kind = "response" /\ resp.status = 401)
        /\ req.auth = <<>> => resp.kind = "response" /\ resp.status = 401

C8_Witness ==
    /\ Reaches({"orders_post"}) /\ Answered
    /\ issued # {}
    /\ Forged \notin issued
    /\ req.auth = BearerToken(Forged)
    /\ resp.status = 200

\* the number of tasks these agents have completed so far
RECURSIVE CompletedBy(_)
CompletedBy(roles) ==
    IF roles = {} THEN 0
    ELSE LET role == CHOOSE x \in roles : TRUE
         IN done[role].completed + CompletedBy(roles \ {role})

\* C9 as stated: GET /api/v1/agents returns the team status and summary of the
\* freshly constructed team whatever requests were handled before it.
C9_Original ==
    (Reaches({"agents"}) /\ resp.kind = "response") =>
        resp.data = AgentsHandler(req, NewAgents).data

\* C9 as amended: the agent team is shared between requests: GET /api/v1/agents
\* reports for each of the 7 agents the number of its tasks that completed so far
\* and as total_tasks_completed their sum, so its response changes once a POST to
\* an agent endpoint has completed a task.
C9_AgentsReportCompletedTasks ==
    (Reaches({"agents"}) /\ resp.kind = "response") =>
        /\ \A role \in Roles :
              resp.data.team[role].tasks_completed = done[role].completed
        /\ resp.data.summary.total_tasks_completed = CompletedBy(Roles)
        /\ resp.data.summary.team_size = 7

C9_Witness ==
    /\ Reaches({"agents"}) /\ resp.kind = "response"
    /\ resp.data.summary.total_tasks_completed = 1
    /\ resp.data # AgentsHandler(req, NewAgents).data

\* C10: no task created by the agent endpoints ends with status "failed".
C10_NoTaskFails == finished.status # "failed"

\* a support task of type handle_ticket without an issue ends failed
C10_Witness ==
    /\ Reaches({"agents_support"}) /\ Answered
    /\ req.body["type"] = Str(S.handle_ticket)
    /\ req.body["issue"] = Missing
    /\ finished.status = "failed"
    /\ finished.result.error = "IndexError"
    /\ resp.status = 200

\* req is a webhook POST with a JSON object as body, to either application
IsWebhook ==
    /\ req.method = "POST" /\ req.kind = "obj"
    /\ \/ req.app = "worker" /\ req.path = p_api(<<"payments", "webhook">>)
       \/ req.app = "fastapi" /\ req.path = p_api(<<"payment", "webhook">>)

\* the status member of the webhook's response, as a JSON value
SentStatus ==
    IF req.app = "fastapi" THEN resp.data.status
    ELSE IF resp.data.status = "ok" THEN Str(S.ok) ELSE Null

\* C11 as stated: the response to a webhook POST whose body has a status carries
\* that status.
C11_Original ==
    (IsWebhook /\ Answered /\ req.body["status"] # Missing) =>
        resp.kind = "response" /\ resp.status = 200 /\ SentStatus = req.body["status"]

\* C11 as amended: the response to a webhook POST does not depend on the status
\* received: the Worker answers status "ok" (with the message "Webhook received"),
\* the FastAPI route answers status "success"; handle_webhook itself returns the
\* status it was given, "paid" in place of "success", and the route drops it.
C11_WebhookAnswerIsFixed ==
    (IsWebhook /\ Answered) =>
        /\ resp.kind = "response" /\ resp.status = 200
        /\ SentStatus = (IF req.app = "worker" THEN Str(S.ok) ELSE Str(S.success))
        /\ req.app = "worker" => resp.data.message = "Webhook received"
        /\ handle_webhook(req.body).status =
              (IF req.body["status"] = Str(S.success) THEN Str(S.paid)
               ELSE IF req.body["status"] = Missing THEN Null
               ELSE req.body["status"])

C11_Witness ==
    /\ IsWebhook /\ Answered /\ req.app = "fastapi"
    /\ req.body["status"] = Str(S.paid)
    /\ resp.data.status = Str(S.success)

\* the upstream call of the request being handled has failed: a failing status
\* or no answer at all
CallFailed ==
    /\ outbound # <<>>
    /\ outbound[Len(outbound)].result.kind \in {"status", "network"}

\* C12: while one request is handled the adapters issue at most one outbound
\* call, and when that call fails the handler answers with an error, no success
\* body, and no further call.
C12_NoRetry ==
    /\ Len(outbound) <= 1
    /\ (req.app = "fastapi" /\ Answered /\ CallFailed) =>
          /\ resp.kind = "response"
          /\ resp.status \in {400, 404}
          /\ resp.data = NoData

C12_Witness ==
    /\ req.app = "fastapi" /\ Answered /\ CallFailed
    /\ ApiRoute(req) = "get_company"
    /\ outbound[1].result.status = 503
    /\ Len(outbound) = 1
    /\ resp.status = 404

\* C13 as stated: when the upstream call fails with status s, the response to
\* the client carries status s.
C13_Original ==
    (req.app = "fastapi" /\ Answered /\ CallFailed
        /\ outbound[1].result.kind = "status") =>
        resp.status = outbound[1].result.status

\* C13 as amended: when the upstream call fails, with whatever status or with no
\* answer, the response carries the status fixed for the route: 400 for
\* incorporate, search, payment create and the MCP call, 404 for get company,
\* filing history and payment status.
C13_FailureStatusIsPerRoute ==
    (req.app = "fastapi" /\ Answered /\ CallFailed) =>
        /\ resp.kind = "response"
        /\ resp.status =
              (IF ApiRoute(req) \in {"get_company", "get_filing_history",
                                     "get_payment_status"}
               THEN 404 ELSE 400)

C13_Witness ==
    /\ req.app = "fastapi" /\ Answered /\ CallFailed
    /\ ApiRoute(req) = "call_tool"
    /\ req.body.tool_name = "verify_payment"
    /\ outbound[1].result.status = 500
    /\ resp.status = 400

\* req is an authorized POST /api/v1/payments/create whose body is an object
\* with a non-empty order_id and a positive amount
PayableRequest ==
    /\ Reaches({"payments_create"}) /\ req.kind = "obj"
    /\ Contains(req.auth, S.Bearer)
    /\ req.body["order_id"].t = "str" /\ req.body["order_id"].s # <<>>
    /\ req.body["amount"].t = "num" /\ req.body["amount"].n > 0

\* C14: whatever orders were returned before, an authorized payment request with
\* a non-empty order_id and a positive amount succeeds with a payment that is
\* "pending" and carries that order_id.
C14_PaymentNeedsNoOrder ==
    (PayableRequest /\ Answered) =>
        /\ resp.kind = "response" /\ resp.status = 200
        /\ resp.data.payment.status = "pending"
        /\ resp.data.payment.order_id = req.body["order_id"]

C14_Witness ==
    /\ PayableRequest /\ Answered
    /\ orders # {}
    /\ \A o \in orders : OrderIdText(o) # req.body["order_id"]
    /\ resp.status = 200 /\ resp.data.payment.status = "pending"

\* req is an authorized POST /api/v1/orders whose body is an object with a country
\* of the provider table (or none, which means "uk") and a non-empty company_name
OrderableRequest ==
    /\ Is("POST", p_api(<<"orders">>)) /\ req.kind = "obj"
    /\ Contains(req.auth, S.Bearer)
    /\ InProviders(Get(req.body, "country", Str(S.uk)))
    /\ req.body["company_name"].t = "str" /\ ~Blank(req.body["company_name"])

\* what POST /api/v1/pricing/calculate returns for the country, the company_type
\* and the virtual-address choice of req's body (the choice is the key
\* "virtual_address" there and "use_virtual_address" in an order)
Quote ==
    PricingHandler(Post(p_api(<<"pricing", "calculate">>), <<>>, "obj",
                        [req.body EXCEPT !["virtual_address"] =
                                             req.body["use_virtual_address"]]))

Incorporated ==
    /\ Is("POST", p_api(<<"companies", "incorporate">>))
    /\ resp.kind = "response" /\ resp.status = 200

\* the two paths of a successful incorporation
ViaGateway ==
    /\ resp.data.provider = "Companies House XML Gateway"
    /\ resp.data.provider_type = "xml_gateway"
    /\ resp.data.xml_generated = TRUE
    /\ resp.data.next_steps = "gateway"

ViaProvider ==
    /\ resp.data.provider = PROVIDERS[resp.data.country].name
    /\ resp.data.provider_type = PROVIDERS[resp.data.country].type
    /\ resp.data.xml_generated = FALSE
    /\ resp.data.next_steps =
           (IF PROVIDERS[resp.data.country].type = "manual" THEN "manual" ELSE "api")

\* C16 as stated: every successful incorporation has company_number "PENDING",
\* carries the company_name and the country exactly as submitted, and takes the
\* gateway path for "uk" and the provider path for every other country.
C16_Original ==
    Incorporated =>
        /\ resp.data.company_number = "PENDING"
        /\ resp.data.company_name = req.body["company_name"].s
        /\ resp.data.country = Get(req.body, "country", Str(S.uk)).s
        /\ IF resp.data.country = S.uk THEN ViaGateway ELSE ViaProvider

\* C16: every successful incorporation has company_number "PENDING", carries the
\* submitted company_name with surrounding whitespace removed and the submitted
\* country in lower case ("uk" when none was submitted), and takes the gateway
\* path when that country is "uk" and the provider path otherwise.
C16_IncorporationRecord ==
    Incorporated =>
        /\ resp.data.company_number = "PENDING"
        /\ resp.data.company_name = Strip(req.body["company_name"].s)
        /\ resp.data.country = Lower(Get(req.body, "country", Str(S.uk)).s)
        /\ resp.data.country \in DOMAIN PROVIDERS
        /\ IF resp.data.country = S.uk THEN ViaGateway ELSE ViaProvider

C16_Witness ==
    /\ Incorporated
    /\ req.body["company_name"] = Str(<<" ", "A", " ">>)
    /\ req.body["country"] = Str(<<"U", "K">>)
    /\ resp.data.company_name = <<"A">> /\ resp.data.country = S.uk
    /\ ViaGateway

\* the provider path with a manual provider
C16_WitnessManual ==
    /\ Incorporated
    /\ req.body["country"] = Str(S.ae)
    /\ resp.data.provider = "UAE Free Zone Services"
    /\ resp.data.next_steps = "manual"

\* req is a GET /api/v1/companies/search with a non-empty q and a country of the
\* provider table (or none, which means "uk")
Searchable ==
    /\ Reaches({"search"})
    /\ Get(req.query, "q", Str(<<>>)).s # <<>>
    /\ InProviders(Get(req.query, "country", Str(S.uk)))

\* the request of this behaviour can be answered 200 with this value of available
CanAnswerAvailable(v) ==
    ENABLED (/\ NextRequest
             /\ resp'.kind = "response" /\ resp'.status = 200
             /\ resp'.data.company_name = req.query.q.s
             /\ resp'.data.available = v)

\* C17: a search request with a non-empty q and a supported country, before it is
\* answered, can be answered with available true and can be answered with
\* available false: the same request has both outcomes.
C17_BothOutcomes ==
    (Searchable /\ Waiting) => CanAnswerAvailable(TRUE) /\ CanAnswerAvailable(FALSE)

C17_Witness ==
    /\ Searchable /\ Answered
    /\ req.query.country = Str(S.ae)
    /\ resp.status = 200 /\ resp.data.available = FALSE
    /\ resp.data.suggestions = 2

\* req is a direct call of AgentTeam.process_task for ACCOUNTING
AccountingCall(r) == r.app = "team" /\ r.role = "accounting"

\* C18: the roster is the same seven agents in every state and get_team_summary
\* reports team_size 7; a step that calls AgentTeam.process_task for ACCOUNTING
\* returns an error dictionary and changes no agent (nor any task).
C18_RosterIsFixed ==
    /\ [](/\ DOMAIN agents = Roles
          /\ Cardinality(DOMAIN agents) = 7
          /\ get_team_summary(agents).team_size = 7)
    /\ [][AccountingCall(req') =>
              /\ resp'.kind = "return"
              /\ resp'.data = [error |-> "Agent role AgentRole.ACCOUNTING not found"]
              /\ agents' = agents /\ tasks' = tasks /\ done' = done]_vars

C18_Witness ==
    /\ AccountingCall(req)
    /\ resp.kind = "return" /\ resp.data = [error |-> "Agent role AgentRole.ACCOUNTING not found"]
    /\ agents["support"].status = "processing" /\ agents["support"].current_task = 1
    /\ DOMAIN agents = Roles

\* the value of the nested price table for this pair, 100 when the pair is not in it
TableOrDefault(country, company_type) ==
    IF country.t = "str" /\ country.s \in DOMAIN base_prices
       /\ company_type.t = "str"
       /\ company_type.s \in DOMAIN base_prices[country.s]
    THEN base_prices[country.s][company_type.s]
    ELSE 100

\* C19 as stated: for every country and company_type _calculate_price returns a
\* price whose base fee is the value of the price table for the pair, or 100 when
\* the pair is not in the table; no input is rejected.
C19_BaseFeeForEveryInput ==
    Answered =>
        /\ resp.kind = "response"
        /\ resp.data.breakdown.base = TableOrDefault(req.country, req.company_type)

\* C19, the part that holds: whenever _calculate_price returns, the base fee is
\* the table value or 100, and it returns for every country and company_type
\* that are hashable (text, number, boolean, null).
C19_BaseFeeWhenHashable ==
    Answered =>
        IF Hashable(req.country) /\ Hashable(req.company_type)
        THEN /\ resp.kind = "response"
             /\ resp.data.breakdown.base =
                    TableOrDefault(req.country, req.company_type)
        ELSE resp = Raised("TypeError")

\* a supported country with a company_type it does not list gets 100 ...
C19_WitnessDefault ==
    /\ req.country = Str(S.sg) /\ req.company_type = Str(S.ltd)
    /\ resp.kind = "response" /\ resp.data.breakdown.base = 100

\* ... and a company_type that is a JSON object is rejected by a TypeError
C19_Witness ==
    /\ req.country = Str(S.uk) /\ req.company_type = Dict
    /\ resp = Raised("TypeError")

\* req is a POST to /api/v1/auth/register or /api/v1/auth/login whose body is
\* valid JSON
AuthPost == Reaches({"auth_register", "auth_login"}) /\ req.kind \in {"obj", "nonobj"}

\* a body value that is text or absent
TextOrAbsent(v) == v.t \in {"str", "missing"}

\* the email of the body is empty after trimming, or its password is empty, or
\* (register) its password is text shorter than 6 characters
WeakCredentials ==
    /\ req.kind = "obj"
    /\ \/ Blank(req.body["email"])
       \/ req.body["password"] \in {Missing, Str(<<>>)}
       \/ /\ Route(req) = "auth_register"
          /\ req.body["password"].t = "str"
          /\ Len(req.body["password"].s) < MinPasswordLen

Rejected400 == resp.kind = "response" /\ resp.status = 400 /\ resp.data = NoData

TokenReturned ==
    resp.kind = "response" /\ resp.status = 200 /\ resp.data.token \in Tokens

\* C20 as stated: register and login answer 400 without a token when the email
\* (trimmed) or the password is empty, register also when the password is
\* shorter than 6 characters, and in every other case with a valid JSON body
\* they return a token.
C20_TokenOrRejection ==
    (AuthPost /\ Answered) => IF WeakCredentials THEN Rejected400 ELSE TokenReturned

\* C20, the part that holds: the same, for bodies that are objects whose email,
\* password and name are text or absent.
C20_TextCredentials ==
    (AuthPost /\ Answered /\ req.kind = "obj"
        /\ TextOrAbsent(req.body["email"]) /\ TextOrAbsent(req.body["password"])
        /\ TextOrAbsent(req.body["name"])) =>
        IF WeakCredentials THEN Rejected400 ELSE TokenReturned

\* a token is returned for text credentials ...
C20_WitnessToken ==
    /\ AuthPost /\ Route(req) = "auth_register" /\ ~WeakCredentials
    /\ TokenReturned /\ resp.data.user.email = <<"a", "@", "b">>

\* ... and an email that is a number ends register with an AttributeError
C20_Witness ==
    /\ AuthPost /\ Route(req) = "auth_register"
    /\ req.body["email"] = Num(5)
    /\ req.body["password"] = Str(<<"s", "e", "c", "r", "e", "t">>)
    /\ resp = Raised("AttributeError")

\* the tasks given to the agent of this role that have started and not finished
InFlight(role) == {id \in DOMAIN tasks : tasks[id].agent_role = role}

\* C21 as stated: an agent is PROCESSING with a current task whenever a task given
\* to it is in flight, and is ACTIVE with no current task only when none is.
C21_ProcessingWhileInFlight ==
    \A role \in Roles :
        InFlight(role) # {} <=>
            (agents[role].status = "processing" /\ agents[role].current_task # 0)

\* two calls overlap on the support agent; the first to finish has reset the agent
\* while the other is still in flight
C21_Witness ==
    /\ Cardinality(InFlight("support")) = 1
    /\ done["support"].completed + done["support"].failed = 1
    /\ agents["support"].status = "active" /\ agents["support"].current_task = 0

\* C22: once no call is in flight, every agent's tasks_completed is the number of
\* its tasks that ended "completed" (failed tasks and overlapping calls do not
\* change that), and total_tasks_completed is the sum over the agents.
C22_CountsCompletedTasks ==
    tasks = <<>> =>
        /\ \A role \in Roles : agents[role].tasks_completed = done[role].completed
        /\ get_team_summary(agents).total_tasks_completed = CompletedBy(Roles)

\* one task of the support agent completed and one failed
C22_Witness ==
    /\ tasks = <<>>
    /\ done["support"].completed = 1 /\ done["support"].failed = 1
    /\ agents["support"].tasks_completed = 1
    /\ get_team_summary(agents).total_tasks_completed = 1

\* two tasks of one agent completed
C22_WitnessTwo ==
    /\ tasks = <<>>
    /\ done["ceo"].completed = 2 /\ agents["ceo"].tasks_completed = 2

\* the agents whose status is PROCESSING
Processing == {role \in Roles : agents[role].status = "processing"}

\* C23: with no call in flight every agent is ACTIVE with no current task, after
\* completed and after failed tasks; no agent is ever BUSY or OFFLINE, so
\* busy_agents is 0 and active_agents plus the PROCESSING agents is 7.
C23_IdleWhenNothingInFlight ==
    /\ tasks = <<>> =>
           \A role \in Roles :
               agents[role].status = "active" /\ agents[role].current_task = 0
    /\ \A role \in Roles : agents[role].status \in {"active", "processing"}
    /\ get_team_summary(agents).busy_agents = 0
    /\ get_team_summary(agents).active_agents + Cardinality(Processing) = 7

\* the failure path: the last task failed and its agent is idle again
C23_Witness ==
    /\ tasks = <<>>
    /\ finished.status = "failed" /\ finished.agent_role = "support"
    /\ agents["support"].status = "active" /\ agents["support"].current_task = 0
    /\ get_team_summary(agents).active_agents = 7

\* C24: every call that started finishes, as "completed" with the returned
\* dictionary as result or as "failed" with an error as result, and every agent
\* that is PROCESSING becomes ACTIVE again.
C24_EveryCallFinishes ==
    /\ \A id \in 1..MaxCalls :
           (id \in DOMAIN tasks) ~>
               (/\ id \notin DOMAIN tasks
                /\ finished.id = id
                /\ finished.status \in {"completed", "failed"})
    /\ \A role \in Roles :
           (agents[role].status = "processing") ~> (agents[role].status = "active")
    /\ [](/\ \A id \in DOMAIN tasks : tasks[id].status = "pending"
          /\ finished.status \in {"none", "completed", "failed"}
          /\ finished.status = "failed" => finished.result.branch = "error"
          /\ finished.status = "completed" =>
                 finished.result.branch \notin {"error", "raise", "none"})
    /\ [][finished' # finished =>
              (resp'.kind = "response" /\ resp'.data.result = finished'.result)]_vars

\* the second of two calls has finished, after the first, and completed
C24_Witness ==
    /\ tasks = <<>>
    /\ finished.id = 2 /\ finished.status = "completed"
    /\ done["support"].failed = 1
    /\ resp.kind = "response" /\ resp.data.result = finished.result
    /\ \A role \in Roles : agents[role].status = "active"

\* the prefixes each agent's _execute_task tests, with the branch each selects
KnownPrefixes(role) ==
    CASE role = "ceo" -> {<<S.analyze_performance, "analyze_performance">>}
      [] role = "sales" -> {<<S.qualify_lead, "qualify_lead">>,
                            <<S.handle_inquiry, "handle_inquiry">>}
      [] role = "support" -> {<<S.handle_ticket, "handle_ticket">>, <<S.faq, "faq">>}
      [] role = "registration" -> {<<S.register_company, "register_company">>,
                                   <<S.check_status, "check_status">>}
      [] role = "compliance" -> {<<S.verify_kyc, "verify_kyc">>,
                                 <<S.risk_assessment, "risk_assessment">>}
      [] role = "payment" -> {<<S.process_payment, "process_payment">>,
                              <<S.create_invoice, "create_invoice">>}
      [] role = "marketing" -> {<<S.generate_content, "generate_content">>,
                                <<S.campaign_report, "campaign_report">>}
      [] OTHER -> {}

Matching(role, d) ==
    {pr \in KnownPrefixes(role) : d.t = "str" /\ StartsWith(d.s, pr[1])}

\* the branch the claim assigns to a description: that of the prefix it starts
\* with, the generic message otherwise
BranchFor(role, d) ==
    IF Matching(role, d) # {} THEN (CHOOSE pr \in Matching(role, d) : TRUE)[2]
    ELSE "message"

\* the description the claim assigns to a request of the sales, support and
\* payment endpoints (a body that is not valid JSON counts as {})
EndpointDescription ==
    LET body == IF req.kind = "invalid" THEN EmptyBody ELSE req.body
    IN CASE Reaches({"agents_sales"}) ->
                IF body["action"] = Str(S.qualify) THEN Str(S.qualify_lead)
                ELSE Str(S.handle_inquiry)
         [] Reaches({"agents_support"}) ->
                IF body["type"] = Missing THEN Str(S.faq) ELSE body["type"]
         [] Reaches({"agents_payment"}) ->
                IF body["action"] = Missing THEN Str(S.process_payment)
                ELSE body["action"]
         [] OTHER -> finished.description

\* C25 as stated: every finished task completed with the result of the branch its
\* description selects (the prefix's branch, else the generic message) and was
\* counted; the sales, support and payment endpoints derive the description from
\* the body as described.
C25_BranchByPrefix ==
    finished.status # "none" =>
        /\ finished.description = EndpointDescription
        /\ finished.status = "completed"
        /\ finished.result.branch = BranchFor(finished.agent_role, finished.description)
        /\ agents[finished.agent_role].tasks_completed = done[finished.agent_role].completed
        /\ done[finished.agent_role].completed > 0

\* C25, the part that holds: the endpoints derive the description as described,
\* and every task that completed has the result of the branch its description
\* selects and was counted; a task fails only when its description is not text
\* or starts with a known prefix (whose branch raised).
C25_BranchUnlessRaised ==
    finished.status # "none" =>
        /\ finished.description = EndpointDescription
        /\ IF finished.status = "completed"
           THEN /\ finished.result.branch =
                       BranchFor(finished.agent_role, finished.description)
                /\ agents[finished.agent_role].tasks_completed =
                       done[finished.agent_role].completed
                /\ done[finished.agent_role].completed > 0
           ELSE \/ finished.description.t # "str"
                \/ Matching(finished.agent_role, finished.description) # {}

\* a task the fallback completed
C25_WitnessFallback ==
    /\ Reaches({"agents_support"}) /\ req.body["type"] = Str(<<"x">>)
    /\ finished.status = "completed" /\ finished.result.branch = "message"
    /\ agents["support"].tasks_completed = 1

\* a description with a known prefix whose branch raised
C25_Witness ==
    /\ Reaches({"agents_support"})
    /\ req.body["type"] = Str(S.handle_ticket \o <<"s">>)
    /\ req.body["issue"] = Str(<<" ">>)
    /\ finished.description = Str(S.handle_ticket \o <<"s">>)
    /\ finished.status = "failed" /\ finished.result.branch = "error"
    /\ agents["support"].tasks_completed = 0

\* C26 as stated: a request to GET /api/v1/orders/{id}, GET /api/v1/orders or
\* POST /api/v1/orders whose Authorization header does not contain "Bearer" is
\* answered 401 with no order data.
C26_OrderDataNeedsBearer ==
    (Reaches({"order_detail", "orders_get", "orders_post"}) /\ Answered
        /\ ~Contains(req.auth, S.Bearer)) =>
        /\ resp.kind = "response" /\ resp.status = 401
        /\ resp.data = NoData

\* C26, the part that holds: the same for GET and POST /api/v1/orders, while
\* GET /api/v1/orders/{id} answers 200 with the order of that id whatever the
\* Authorization header is.
C26_OnlyOrderListNeedsBearer ==
    /\ (Reaches({"orders_get", "orders_post"}) /\ Answered
           /\ ~Contains(req.auth, S.Bearer)) =>
           (resp.kind = "response" /\ resp.status = 401 /\ resp.data = NoData)
    /\ (Reaches({"order_detail"}) /\ Answered) =>
           /\ resp.kind = "response" /\ resp.status = 200
           /\ resp.data.order.id = LastSegment(req.path)

\* order details returned to a request without an Authorization header
C26_Witness ==
    /\ Reaches({"order_detail"}) /\ Answered
    /\ req.auth = <<>>
    /\ resp.status = 200 /\ resp.data.order.status = "processing"
    /\ resp.data.order.id = LastSegment(req.path)

\* req is an authorized POST /api/v1/payments/create whose body is an object
AuthorizedPayment ==
    /\ Reaches({"payments_create"}) /\ req.kind = "obj"
    /\ Contains(req.auth, S.Bearer)

\* the order_id of the body is absent or empty, or its amount is absent, zero or
\* negative
Unpayable ==
    \/ req.body["order_id"] \in {Missing, Str(<<>>)}
    \/ req.body["amount"] = Missing
    \/ req.body["amount"].t = "num" /\ req.body["amount"].n <= 0

\* C27: an authorized payment request with an empty or missing order_id, or a
\* missing, zero or negative amount, is answered 400 with no payment; every
\* payment returned has a positive amount, the order_id and the currency of the
\* request ("USDT" when it has none), status "pending", and network "TRC20"
\* exactly when the currency is "USDT", "ERC20" otherwise.
C27_PaymentIsValidated ==
    (AuthorizedPayment /\ Answered) =>
        /\ Unpayable => Rejected400
        /\ (resp.kind = "response" /\ resp.status = 200) =>
               LET payment == resp.data.payment
               IN /\ payment.amount = req.body["amount"]
                  /\ payment.amount.n > 0
                  /\ payment.order_id = req.body["order_id"]
                  /\ payment.currency = Get(req.body, "currency", Str(S.USDT))
                  /\ payment.status = "pending"
                  /\ payment.network =
                         (IF payment.currency = Str(S.USDT) THEN "TRC20" ELSE "ERC20")

\* a negative amount is rejected
C27_Witness ==
    /\ AuthorizedPayment /\ Answered
    /\ req.body["order_id"] # Missing /\ req.body["order_id"].s # <<>>
    /\ req.body["amount"] = Num(-1)
    /\ Rejected400

\* a payment in a currency other than USDT
C27_WitnessPayment ==
    /\ AuthorizedPayment /\ Answered
    /\ req.body["currency"] = Str(<<"B", "T", "C">>)
    /\ resp.status = 200 /\ resp.data.payment.network = "ERC20"
    /\ resp.data.payment.amount = Num(5)

\* what _calculate_price returns for a country of the provider table and one of
\* the company types it offers
Calculated(code, feature) == _calculate_price(Str(code), Str(feature), Bool(FALSE))

\* the pricing GET /api/v1/countries lists for the country
Listed(code) == resp.data.countries[code].pricing

\* the listed base is the calculator's base for one of the country's features
BaseAgrees(code) ==
    \E f \in PROVIDERS[code].features :
        Listed(code).base = Calculated(code, f).breakdown.base

\* C28 as stated: for every country of PROVIDERS the listed currency is the
\* calculator's currency and the listed base is the calculator's base for at
\* least one company type the country offers.
C28_ListingAgreesWithCalculator ==
    (Reaches({"countries"}) /\ Answered) =>
        \A code \in DOMAIN PROVIDERS :
            /\ \A f \in PROVIDERS[code].features :
                   Listed(code).currency = Calculated(code, f).currency
            /\ BaseAgrees(code)

\* C28, the part that holds: the currencies agree for every country, the base
\* agrees for "uk", "sg" and "hk"; for "ae" and "us" the listed base is the
\* default 100, which is the calculator's base for none of their company types.
C28_ListingAgreesForThree ==
    (Reaches({"countries"}) /\ Answered) =>
        \A code \in DOMAIN PROVIDERS :
            /\ \A f \in PROVIDERS[code].features :
                   Listed(code).currency = Calculated(code, f).currency
            /\ BaseAgrees(code) <=> code \in {S.uk, S.sg, S.hk}
            /\ code \in {S.ae, S.us} => Listed(code).base = 100

C28_Witness ==
    /\ Reaches({"countries"}) /\ Answered
    /\ Listed(S.ae).base = 100
    /\ Calculated(S.ae, S.freezone).breakdown.base = 500
    /\ Calculated(S.ae, S.mainland).breakdown.base = 450
    /\ ~BaseAgrees(S.ae)

\* req is a POST /api/v1/mcp/call whose body fits ToolCallRequest
ToolCall ==
    /\ req.app = "fastapi" /\ ApiRoute(req) = "call_tool"
    /\ req.kind = "obj" /\ req.body.fits

\* the methods of the service that matches the tool: Companies House for the
\* three company tools, CCPayment for the two payment tools
MatchingService(tool) ==
    IF tool \in {"register_uk_company", "get_company_status", "search_uk_companies"}
    THEN {"incorporate_company", "get_company", "get_filing_history",
          "search_companies"}
    ELSE {"create_payment", "get_payment_status"}

\* C29: a call of an advertised tool with all the parameters its schema requires
\* makes exactly one call, to a method of the matching service, and is not
\* answered "Unknown tool"; a call of any other tool name, or of an advertised
\* tool without one of its required parameters, makes no call and is answered 400.
C29_DispatchMatchesToolList ==
    ToolCall =>
        IF /\ req.body.tool_name \in DOMAIN list_tools
           /\ list_tools[req.body.tool_name] \subseteq req.body.parameters
        THEN /\ Len(outbound) = 1
             /\ outbound[1].method \in MatchingService(req.body.tool_name)
             /\ resp.error # "ValueError"
        ELSE /\ outbound = <<>>
             /\ resp.kind = "response" /\ resp.status = 400 /\ resp.data = NoData

\* verify_payment with its order_id: one call of CCPayment's get_payment_status,
\* answered
C29_Witness ==
    /\ ToolCall /\ Answered
    /\ req.body.tool_name = "verify_payment" /\ req.body.parameters = {"order_id"}
    /\ Len(outbound) = 1 /\ outbound[1].method = "get_payment_status"
    /\ resp.status = 200

\* create_usdt_payment without its amount: no call, 400
C29_WitnessMissing ==
    /\ ToolCall /\ Answered
    /\ req.body.tool_name = "create_usdt_payment"
    /\ req.body.parameters = {"order_id"}
    /\ outbound = <<>> /\ resp.status = 400 /\ resp.error = "KeyError"

====
